---------------------------- MODULE Spec2Model ----------------------------
(***************************************************************************)
(* Scoring, ROI and pricing engine of the lead-qualification application:  *)
(* app/core/analysis.py, app/core/llm.py, app/core/pricing.py,             *)
(* app/core/modules.py and app/core/gemini_client.py; the stored leads,    *)
(* OAuth tokens and projects of app/core/storage.py; and the /implement    *)
(* and /portal/login handlers of app/main.py.                              *)
(*                                                                         *)
(* Texts are TLA+ strings; "key in text" is a real substring search, and   *)
(* _normalize lowercases and collapses whitespace character by character.  *)
(* Python floats are modelled as exact rationals (integer part plus a      *)
(* numerator over a fixed denominator).                                    *)
(***************************************************************************)
EXTENDS Integers, Sequences, FiniteSets, TLC

VARIABLES
    payload,                 \* the BusinessInput under analysis
    apiKey,                  \* GEMINI_API_KEY is set and non-blank
    pc,                      \* position inside run_analysis
    friction_points_guess,   \* _pick_friction_points(payload)
    scored,                  \* the sorted (score, module) list of _score_modules
    modules_guess,           \* names of the recommended modules of _score_modules
    optional_modules_guess,  \* names of the optional modules of _score_modules
    fallback_result,         \* fallback_result of consultant_diagnosis
    attempt,                 \* index of the next model candidate of generate_content
    requests,                \* generateContent requests sent so far
    reply,                   \* what _call_gemini returned
    diagnosis,               \* result of consultant_diagnosis
    output,                  \* the AnalysisOutput (or the raised error)
    quote,                   \* arguments and results of the pricing functions
    lead,                    \* the stored lead: diagnosis_json and what fetch_lead rebuilds
    client,                  \* one call of generate_content: candidates, requests, result
    roadmap,                 \* arguments and result of _build_roadmap
    tokens,                  \* the oauth_tokens table and the save_oauth_token calls in progress
    project,                 \* one request of the /implement handler and its project row
    login                    \* the leads table and one request of portal_login_post

vars == <<payload, apiKey, pc, friction_points_guess, scored, modules_guess,
          optional_modules_guess, fallback_result, attempt, requests, reply, diagnosis,
          output, quote, lead, client, roadmap, tokens, project, login>>

\* the variables of run_analysis, of the pricing functions and of the stored lead
analysisVars == <<payload, apiKey, pc, friction_points_guess, scored, modules_guess,
                  optional_modules_guess, fallback_result, attempt, requests, reply,
                  diagnosis, output, quote, lead>>

---------------------------------------------------------------------------
(* Python built-ins on strings and lists *)

\* key in text
Contains(key, text) ==
    \E i \in 1..(Len(text) - Len(key) + 1) : SubSeq(text, i, i + Len(key) - 1) = key

\* any(key in text for key in keys)
AnyIn(keys, text) == \E i \in 1..Len(keys) : Contains(keys[i], text)

UpperChars == "ABCDEFGHIJKLMNOPQRSTUVWXYZ"
LowerChars == "abcdefghijklmnopqrstuvwxyz"

LowerTable ==
    [c \in {SubSeq(UpperChars, i, i) : i \in 1..Len(UpperChars)} |->
        LET i == CHOOSE j \in 1..Len(UpperChars) : SubSeq(UpperChars, j, j) = c
        IN  SubSeq(LowerChars, i, i)]

\* str.lower() on one character
LowerChar(c) == IF c \in DOMAIN LowerTable THEN LowerTable[c] ELSE c

\* text[lo-1:hi].lower(), built by halves
RECURSIVE LowerRange(_, _, _)
LowerRange(text, lo, hi) ==
    IF lo > hi THEN ""
    ELSE IF lo = hi THEN LowerChar(SubSeq(text, lo, lo))
    ELSE LowerRange(text, lo, (lo + hi) \div 2) \o LowerRange(text, (lo + hi) \div 2 + 1, hi)

\* text.lower()
Lower(text) == LowerRange(text, 1, Len(text))

IsSpace(c) == c \in {" ", "\t", "\n", "\r"}

\* what re.sub(r"\s+", " ", text) leaves of the character at position i: a run of
\* whitespace becomes one space, put where the run starts
CollapsedChar(text, i) ==
    LET c == SubSeq(text, i, i)
    IN  IF ~IsSpace(c) THEN c
        ELSE IF i > 1 /\ IsSpace(SubSeq(text, i - 1, i - 1)) THEN "" ELSE " "

RECURSIVE CollapseRange(_, _, _)
CollapseRange(text, lo, hi) ==
    IF lo > hi THEN ""
    ELSE IF lo = hi THEN CollapsedChar(text, lo)
    ELSE CollapseRange(text, lo, (lo + hi) \div 2)
         \o CollapseRange(text, (lo + hi) \div 2 + 1, hi)

\* re.sub(r"\s+", " ", text)
Collapse(text) == CollapseRange(text, 1, Len(text))

\* re.sub(r"\s+", " ", text.lower())
_normalize(text) == Collapse(Lower(text))

RECURSIVE StripLeft(_)
StripLeft(text) ==
    IF Len(text) > 0 /\ IsSpace(SubSeq(text, 1, 1))
    THEN StripLeft(SubSeq(text, 2, Len(text))) ELSE text

RECURSIVE StripRight(_)
StripRight(text) ==
    IF Len(text) > 0 /\ IsSpace(SubSeq(text, Len(text), Len(text)))
    THEN StripRight(SubSeq(text, 1, Len(text) - 1)) ELSE text

\* text.strip()
Strip(text) == StripRight(StripLeft(text))

Min(a, b) == IF a < b THEN a ELSE b
Max(a, b) == IF a > b THEN a ELSE b

\* seq[:n]
Take(seq, n) == SubSeq(seq, 1, Min(n, Len(seq)))

\* seq[a:b] with 0-based Python bounds
Slice(seq, a, b) == SubSeq(seq, a + 1, Min(b, Len(seq)))

\* [x for x in seq if x in keep]
RECURSIVE FilterIn(_, _)
FilterIn(seq, keep) ==
    IF seq = <<>> THEN <<>>
    ELSE (IF Head(seq) \in keep THEN <<Head(seq)>> ELSE <<>>) \o FilterIn(Tail(seq), keep)

Range(seq) == {seq[i] : i \in 1..Len(seq)}

---------------------------------------------------------------------------
(* modules.py: the catalog *)

catalog == <<
    [name |-> "Bot de ventas para WhatsApp", estimated_weeks |-> 3,
     tags |-> <<"whatsapp", "ventas", "leads", "seguimiento", "cotizacion", "citas", "agenda", "reservas">>],
    [name |-> "Chatbot de atencion al cliente", estimated_weeks |-> 3,
     tags |-> <<"chatbot", "soporte", "web", "whatsapp", "faq", "citas", "agenda">>],
    [name |-> "Conciliacion bancaria automatica", estimated_weeks |-> 3,
     tags |-> <<"banco", "conciliacion", "contabilidad", "tesoreria">>],
    [name |-> "Sincronizacion Shopify-ERP", estimated_weeks |-> 4,
     tags |-> <<"shopify", "inventario", "erp", "stock", "pedido">>],
    [name |-> "Facturacion inteligente", estimated_weeks |-> 2,
     tags |-> <<"factura", "facturacion", "comprobante", "correo", "sat">>],
    [name |-> "Reportes y dashboards operativos", estimated_weeks |-> 2,
     tags |-> <<"reporte", "dashboard", "kpi", "excel", "administracion", "indicadores">>],
    [name |-> "Ruteo de tickets de soporte", estimated_weeks |-> 2,
     tags |-> <<"soporte", "ticket", "servicio", "sla">>],
    [name |-> "Enriquecimiento y limpieza de CRM", estimated_weeks |-> 1,
     tags |-> <<"crm", "duplicado", "limpieza", "datos">>],
    [name |-> "Onboarding de personal", estimated_weeks |-> 1,
     tags |-> <<"onboarding", "rh", "recursos humanos", "capacitar">>],
    [name |-> "Automatizacion de correo", estimated_weeks |-> 2,
     tags |-> <<"correo", "email", "bandeja", "seguimiento">>]
>>

CatalogNames == {catalog[i].name : i \in 1..Len(catalog)}

ShopifyErp == "Sincronizacion Shopify-ERP"

---------------------------------------------------------------------------
(* analysis.py: the module scorer *)

gates == [n \in {
        "Sincronizacion Shopify-ERP", "Conciliacion automatica (banco vs ventas)",
        "Facturacion inteligente", "Ruteo de tickets de soporte",
        "Enriquecimiento y limpieza de CRM", "Bot de ventas para WhatsApp",
        "Chatbot de atencion al cliente", "Onboarding de personal",
        "Eficiencia administrativa (archivos y carpetas)",
        "Generador de documentos inteligente"} |->
    CASE n = "Sincronizacion Shopify-ERP" ->
            <<"shopify", "ecommerce", "tienda online", "tienda en linea", "woocommerce">>
      [] n = "Conciliacion automatica (banco vs ventas)" ->
            <<"banco", "conciliacion", "tesoreria", "finanzas", "contabilidad", "ventas">>
      [] n = "Facturacion inteligente" -> <<"factura", "facturacion", "comprobante", "sat">>
      [] n = "Ruteo de tickets de soporte" -> <<"ticket", "soporte", "helpdesk", "sla">>
      [] n = "Enriquecimiento y limpieza de CRM" -> <<"crm", "leads", "ventas">>
      [] n = "Bot de ventas para WhatsApp" ->
            <<"whatsapp", "ventas", "leads", "cotizacion", "prospectos", "citas", "agenda",
              "reservas", "turnos">>
      [] n = "Chatbot de atencion al cliente" ->
            <<"chatbot", "soporte", "clientes", "atencion", "faq", "citas", "agenda">>
      [] n = "Onboarding de personal" ->
            <<"rh", "recursos humanos", "onboarding", "personal", "nomina">>
      [] n = "Eficiencia administrativa (archivos y carpetas)" ->
            <<"carpeta", "carpetas", "archivo", "archivos", "documento", "documentos",
              "organizar", "papeleo", "drive", "onedrive", "dropbox">>
      [] n = "Generador de documentos inteligente" ->
            <<"factura", "facturacion", "contrato", "cotizacion", "pdf", "recibo", "firma",
              "firmar">>]

\* a gate that asks for all of a module's keywords instead of any of them
AllGateKeys(text, name) ==
    IF name \notin DOMAIN gates THEN TRUE
    ELSE \A i \in 1..Len(gates[name]) : Contains(gates[name][i], text)

\* _module_allowed(text, module)
_module_allowed(text, name) ==
    IF name \notin DOMAIN gates THEN TRUE ELSE AnyIn(gates[name], text)

PriorityKeys == {"whatsapp_ventas", "inventarios_datos", "dashboards_reportes",
                 "eficiencia_administrativa", "documentos_inteligentes",
                 "conciliacion_automatica"}

selection_map == [k \in PriorityKeys |->
    CASE k = "whatsapp_ventas" ->
            {"Bot de ventas para WhatsApp", "Chatbot de atencion al cliente"}
      [] k = "inventarios_datos" ->
            {"Sincronizacion Shopify-ERP", "Reportes y dashboards operativos",
             "Conciliacion automatica (banco vs ventas)"}
      [] k = "dashboards_reportes" -> {"Reportes y dashboards operativos"}
      [] k = "eficiencia_administrativa" -> {"Eficiencia administrativa (archivos y carpetas)"}
      [] k = "documentos_inteligentes" ->
            {"Generador de documentos inteligente", "Facturacion inteligente"}
      [] k = "conciliacion_automatica" -> {"Conciliacion automatica (banco vs ventas)"}]

\* explicitly_requested of _score_modules
ExplicitlyRequested(selected_modules) ==
    UNION {IF k \in PriorityKeys THEN selection_map[k] ELSE {} : k \in Range(selected_modules)}

score_admin_keywords == <<"carpeta", "carpetas", "archivo", "archivos", "firmar", "firma",
                          "organizar", "organizacion", "papeleo", "papel", "documento",
                          "documentos">>

SelectedBonus == 5
AdminEfficiencyBonus == 6
AdminDocumentsBonus == 4

\* the text _score_modules searches
ScoreText(p) ==
    _normalize(p.processes \o " " \o p.bottlenecks \o " " \o p.systems \o " " \o p.goals
               \o " " \o p.business_focus \o " " \o p.team_roles)

\* sum(1 for tag in module.tags if tag in text)
TagScore(text, m) == Cardinality({i \in 1..Len(m.tags) : Contains(m.tags[i], text)})

\* a score that counts matching tags only
ScoreWithoutBonus(text, requested, m) == TagScore(text, m)

\* the score of one catalog module inside the loop of _score_modules
ModuleScore(text, requested, m) ==
    LET has_admin_pain == AnyIn(score_admin_keywords, text)
    IN  TagScore(text, m)
        + (IF m.name \in requested THEN SelectedBonus ELSE 0)
        + (IF has_admin_pain /\ m.name = "Eficiencia administrativa (archivos y carpetas)"
           THEN AdminEfficiencyBonus ELSE 0)
        + (IF has_admin_pain /\ m.name = "Generador de documentos inteligente"
           THEN AdminDocumentsBonus ELSE 0)

\* the scored list before sorting: (score, module) of every eligible module, catalog order
RECURSIVE ScoredFrom(_, _, _)
ScoredFrom(text, requested, i) ==
    IF i > Len(catalog) THEN <<>>
    ELSE LET m == catalog[i]
             score == ModuleScore(text, requested, m)
             allowed == (m.name \in requested) \/ _module_allowed(text, m.name)
         IN  (IF score > 0 /\ allowed THEN <<[score |-> score, idx |-> i]>> ELSE <<>>)
             \o ScoredFrom(text, requested, i + 1)

\* an insertion that puts an item ahead of the earlier items of equal score
InsertUnstable(sorted, item) ==
    LET k == Cardinality({j \in 1..Len(sorted) : sorted[j].score > item.score})
    IN  SubSeq(sorted, 1, k) \o <<item>> \o SubSeq(sorted, k + 1, Len(sorted))

\* insertion of one item behind every item whose score is not smaller
InsertStable(sorted, item) ==
    LET k == Cardinality({j \in 1..Len(sorted) : sorted[j].score >= item.score})
    IN  SubSeq(sorted, 1, k) \o <<item>> \o SubSeq(sorted, k + 1, Len(sorted))

\* list.sort(key=score, reverse=True): a stable sort by descending score
RECURSIVE SortByScoreDesc(_, _)
SortByScoreDesc(items, sorted) ==
    IF items = <<>> THEN sorted
    ELSE SortByScoreDesc(Tail(items), InsertStable(sorted, Head(items)))

generic == <<"Eficiencia administrativa (archivos y carpetas)",
             "Generador de documentos inteligente", "Reportes y dashboards operativos",
             "Conciliacion automatica (banco vs ventas)", "Facturacion inteligente">>

NameOf(rankedItems) == [i \in 1..Len(rankedItems) |-> catalog[rankedItems[i].idx].name]

AllCatalogNames == [i \in 1..Len(catalog) |-> catalog[i].name]

RecommendedCut == 5
OptionalCut == 9

\* _score_modules(payload): the sorted list and the (selected, optional) names
_score_modules(p) ==
    LET text == ScoreText(p)
        requested == ExplicitlyRequested(p.selected_modules)
        sortedItems == SortByScoreDesc(ScoredFrom(text, requested, 1), <<>>)
        ranked == NameOf(sortedItems)
        selected == Take(ranked, RecommendedCut)
        optional == FilterIn(Slice(ranked, RecommendedCut, OptionalCut),
                             CatalogNames \ Range(selected))
        rankedGeneric == FilterIn(AllCatalogNames, Range(generic))
        selected2 == IF selected = <<>> THEN Take(rankedGeneric, 3) ELSE selected
        optional2 == IF selected = <<>> THEN Slice(rankedGeneric, 3, 6) ELSE optional
        selected3 == IF selected2 = <<>> THEN Take(AllCatalogNames, 3) ELSE selected2
        optional3 == IF selected2 = <<>> THEN Slice(AllCatalogNames, 3, 6) ELSE optional2
    IN  [scored |-> sortedItems, selected |-> selected3, optional |-> optional3]

---------------------------------------------------------------------------
(* analysis.py: pain detector and savings estimate *)

GenericFriction == "Hay tiempos muertos y poca visibilidad: hoy no sabes que pasa en tiempo real."

patterns == <<
    [label |-> "Tu equipo pierde horas cada semana en tareas repetitivas (capturas, copiar/pegar, Excel).",
     keys |-> <<"manual", "excel", "copiar", "pegar", "captura">>],
    [label |-> "Tienes caos administrativo: se pierden archivos, carpetas y versiones (y eso cuesta dinero).",
     keys |-> <<"carpeta", "carpetas", "archivo", "archivos", "documento", "documentos",
                "papeleo", "organizar", "drive", "onedrive", "dropbox">>],
    [label |-> "Los errores de copiar/pegar en documentos (cotizaciones, contratos, facturas) te salen caros.",
     keys |-> <<"cotizacion", "cotizar", "contrato", "factura", "facturacion", "pdf", "firma",
                "firmar">>],
    [label |-> "Se te pueden ir ventas porque los leads se pierden entre WhatsApp, correos y notas.",
     keys |-> <<"whatsapp", "correo", "seguimiento", "leads", "prospect">>],
    [label |-> "Tus clientes esperan demasiado por una respuesta (y eso mata conversion).",
     keys |-> <<"soporte", "ticket", "respuesta", "tard", "espera", "sla">>],
    [label |-> "Pierdes ventas por inventario desactualizado (no sabes que hay realmente).",
     keys |-> <<"inventario", "stock", "erp", "shopify">>],
    [label |-> "La facturacion te frena: capturas, correcciones y envios manuales.",
     keys |-> <<"factura", "facturacion", "comprobante", "cfdi", "sat">>],
    [label |-> "Tus finanzas se cierran tarde por conciliacion manual y errores de captura.",
     keys |-> <<"banco", "conciliacion", "tesoreria", "contabilidad">>],
    [label |-> "Tus reportes llegan tarde: tomas decisiones sin datos al dia.",
     keys |-> <<"reporte", "dashboard", "kpi", "indicador">>]
>>

RECURSIVE PointsFrom(_, _)
PointsFrom(text, i) ==
    IF i > Len(patterns) THEN <<>>
    ELSE (IF AnyIn(patterns[i].keys, text) THEN <<patterns[i].label>> ELSE <<>>)
         \o PointsFrom(text, i + 1)

\* a pain detector that reads the text of the scorer, goals included
FrictionFromScoreText(p) ==
    LET points == PointsFrom(ScoreText(p), 1)
    IN  IF points = <<>> THEN <<GenericFriction>> ELSE points

\* _pick_friction_points(payload)
_pick_friction_points(p) ==
    LET text == _normalize(p.processes \o " " \o p.bottlenecks \o " " \o p.systems \o " "
                           \o p.business_focus \o " " \o p.team_roles)
        points == PointsFrom(text, 1)
    IN  IF points = <<>> THEN <<GenericFriction>> ELSE points

restricted == <<"consultorio", "clinica", "dentista", "medico", "salud", "restaurante",
                "cocina", "chef", "barberia", "estetica">>

ScopeDen == 400

\* _automation_scope_factor(payload), in units of 1/ScopeDen:
\* 1.0, 0.65, 0.85 or 0.65 * 0.85, never below 0.4
_automation_scope_factor(p) ==
    LET text == _normalize(p.business_focus \o " " \o p.processes \o " " \o p.team_roles)
        f1 == IF AnyIn(restricted, text) THEN 260 ELSE 400
        f2 == IF p.team_focus_same = "False" THEN (f1 * 85) \div 100 ELSE f1
    IN  Max(160, f2)

HOURS_PER_DAY == 8
RatioDen == 20

\* min(0.15 + module_count * 0.1, 0.6), in units of 1/RatioDen
SavingsRatio(module_count) == Min(3 + 2 * module_count, 12)

\* weekly_hours of _estimate_savings
WeeklyHours(p) ==
    IF p.manual_hours_per_week # 0 THEN p.manual_hours_per_week
    ELSE p.manual_days_per_week * HOURS_PER_DAY

(* Amounts of money are exact rationals w + f/d with 0 <= f < d. *)
Amount(w, f, d) == [w |-> w, f |-> f, d |-> d]

\* 4.33 * 12 * (10000 * 1.30 / 22 / 8) / (RatioDen * ScopeDen) = RoiNum / RoiDen
RoiNum == 16887
RoiDen == 35200

\* roi_annual_formula of run_analysis:
\* _estimate_savings(payload, module_count) * 12 * loaded_daily_cost / HOURS_PER_DAY
RoiAnnualFormula(p, module_count) ==
    LET a == WeeklyHours(p) * SavingsRatio(module_count) * _automation_scope_factor(p)
        hi == a \div RoiDen
        lo == (a % RoiDen) * RoiNum
    IN  Amount(hi * RoiNum + lo \div RoiDen, lo % RoiDen, RoiDen)

---------------------------------------------------------------------------
(* pricing.py: service tier, setup price and the ROI guard *)

NONE == "<None>"

SERVICE_TIER_RANGES_MXN == [t \in {"MICRO", "LITE", "GROWTH", "ELITE"} |->
    CASE t = "MICRO" -> <<2000, 3000>>
      [] t = "LITE" -> <<8000, 12000>>
      [] t = "GROWTH" -> <<25000, 45000>>
      [] t = "ELITE" -> <<60000, 120000>>]

\* _employee_band_from_team_size(team_size)
_employee_band_from_team_size(team_size) ==
    IF team_size <= 5 THEN "1-5" ELSE IF team_size <= 20 THEN "6-20" ELSE "21-100+"

ServiceTierDecision(tier, reason) ==
    [tier |-> tier,
     min_price_mxn |-> SERVICE_TIER_RANGES_MXN[tier][1],
     max_price_mxn |-> SERVICE_TIER_RANGES_MXN[tier][2],
     reason |-> reason]

micro_keywords == <<"agenda", "citas", "recordatorio", "calendario", "personal",
                    "asistente personal">>
elite_keywords == <<"memoria", "scraping", "masivo", "trading", "erp", "multi-sucursal",
                    "multisucursal">>
growth_keywords == <<"ventas", "crm", "pipeline", "leads", "inventario", "soporte">>

\* decide_service_tier with one rule changed: "micro_first" tests the MICRO rule
\* before the ELITE rule, "narrow_micro" drops team size <= 2 from the MICRO rule,
\* "no_guard" drops the guard-rail rule
TierVariant(p, pain_text, selected_modules, complexity_level, variant) ==
    LET employee_band == Strip(IF p.employee_band # "" THEN p.employee_band
                               ELSE _employee_band_from_team_size(p.team_size))
        volume == Lower(Strip(p.transaction_volume))
        tooling == Lower(Strip(p.tooling_level))
        raw == Lower(pain_text)
        selected == Range(selected_modules)
        team_size == Max(1, p.team_size)
        micro_signals == AnyIn(micro_keywords, raw)
        ultra_micro_size == variant # "narrow_micro" /\ team_size <= 2
        elite_signals == AnyIn(elite_keywords, raw) \/ tooling = "erp_complejo"
        growth_signals == AnyIn(growth_keywords, raw) \/ selected # {}
        simple == volume \in {"", "bajo"} /\ tooling \in {"", "solo_whatsapp", "excel"}
        elite == elite_signals \/ employee_band = "21-100+" \/ volume = "alto"
                 \/ complexity_level = "high"
        micro == employee_band = "1-5" /\ simple
                 /\ (Cardinality(selected) <= 1 \/ micro_signals \/ ultra_micro_size)
    IN  IF elite /\ ~(variant = "micro_first" /\ micro)
        THEN ServiceTierDecision("ELITE",
                "Operacion de alto volumen o integraciones avanzadas (ERP/IA compleja).")
        ELSE IF micro
        THEN ServiceTierDecision("MICRO",
                "Uso personal o micro-negocio con alcance puntual (agenda/chatbot basico).")
        ELSE IF (employee_band = "1-5" /\ simple) \/ complexity_level = "low"
        THEN ServiceTierDecision("LITE",
                "Micro-negocio con flujo simple y enfoque en automatizacion rapida.")
        ELSE IF variant # "no_guard" /\ team_size <= 10 /\ simple /\ ~elite_signals
                /\ complexity_level # "high"
        THEN ServiceTierDecision("LITE",
                "Negocio pequeno de bajo volumen: conviene empezar en LITE y escalar por modulos.")
        ELSE IF growth_signals \/ employee_band = "6-20" \/ volume = "medio"
                \/ complexity_level = "medium"
        THEN ServiceTierDecision("GROWTH",
                "PyME con procesos comerciales/operativos que requieren integraciones.")
        ELSE ServiceTierDecision("GROWTH", "Perfil intermedio con potencial de escalamiento.")

MicroFirstTier(p, pain_text, selected_modules, complexity_level) ==
    TierVariant(p, pain_text, selected_modules, complexity_level, "micro_first")

NarrowMicroTier(p, pain_text, selected_modules, complexity_level) ==
    TierVariant(p, pain_text, selected_modules, complexity_level, "narrow_micro")

UnguardedTier(p, pain_text, selected_modules, complexity_level) ==
    TierVariant(p, pain_text, selected_modules, complexity_level, "no_guard")

\* decide_service_tier(payload, pain_text, selected_modules, complexity_level)
decide_service_tier(p, pain_text, selected_modules, complexity_level) ==
    LET employee_band == Strip(IF p.employee_band # "" THEN p.employee_band
                               ELSE _employee_band_from_team_size(p.team_size))
        volume == Lower(Strip(p.transaction_volume))
        tooling == Lower(Strip(p.tooling_level))
        raw == Lower(pain_text)
        selected == Range(selected_modules)
        team_size == Max(1, p.team_size)
        micro_signals == AnyIn(micro_keywords, raw)
        ultra_micro_size == team_size <= 2
        elite_signals == AnyIn(elite_keywords, raw) \/ tooling = "erp_complejo"
        growth_signals == AnyIn(growth_keywords, raw) \/ selected # {}
        simple == volume \in {"", "bajo"} /\ tooling \in {"", "solo_whatsapp", "excel"}
    IN  IF elite_signals \/ employee_band = "21-100+" \/ volume = "alto"
           \/ complexity_level = "high"
        THEN ServiceTierDecision("ELITE",
                "Operacion de alto volumen o integraciones avanzadas (ERP/IA compleja).")
        ELSE IF employee_band = "1-5" /\ simple
                /\ (Cardinality(selected) <= 1 \/ micro_signals \/ ultra_micro_size)
        THEN ServiceTierDecision("MICRO",
                "Uso personal o micro-negocio con alcance puntual (agenda/chatbot basico).")
        ELSE IF (employee_band = "1-5" /\ simple) \/ complexity_level = "low"
        THEN ServiceTierDecision("LITE",
                "Micro-negocio con flujo simple y enfoque en automatizacion rapida.")
        ELSE IF team_size <= 10 /\ simple /\ ~elite_signals /\ complexity_level # "high"
        THEN ServiceTierDecision("LITE",
                "Negocio pequeno de bajo volumen: conviene empezar en LITE y escalar por modulos.")
        ELSE IF growth_signals \/ employee_band = "6-20" \/ volume = "medio"
                \/ complexity_level = "medium"
        THEN ServiceTierDecision("GROWTH",
                "PyME con procesos comerciales/operativos que requieren integraciones.")
        ELSE ServiceTierDecision("GROWTH", "Perfil intermedio con potencial de escalamiento.")

\* round(n / d) for n >= 0, d > 0: Python rounds halves to the even neighbour
RoundHalfEven(n, d) ==
    LET q == n \div d
        r == n % d
    IN  IF 2 * r < d THEN q
        ELSE IF 2 * r > d THEN q + 1
        ELSE IF q % 2 = 0 THEN q ELSE q + 1

TOOLING_COMPLEXITY(tooling) ==
    CASE tooling = "solo_whatsapp" -> 0
      [] tooling = "excel" -> 1
      [] tooling = "shopify" -> 2
      [] tooling = "erp_complejo" -> 3
      [] OTHER -> 1

VolumeScore(volume) ==
    CASE volume = "bajo" -> 0
      [] volume = "medio" -> 1
      [] volume = "alto" -> 2
      [] OTHER -> 1

\* a price suggester that forgets the upper end of the band
UnboundedSetupPrice(tier_decision, selected_modules, tooling_level, transaction_volume) ==
    LET module_count == Len(selected_modules)
        extra == module_count * 1500
                 + TOOLING_COMPLEXITY(Lower(Strip(tooling_level))) * 2000
                 + VolumeScore(Lower(Strip(transaction_volume))) * 2500
    IN  IF tier_decision.tier = "MICRO"
        THEN RoundHalfEven(Max(tier_decision.min_price_mxn,
                               tier_decision.min_price_mxn + module_count * 500), 100) * 100
        ELSE RoundHalfEven(Max(tier_decision.min_price_mxn,
                               tier_decision.min_price_mxn + extra), 500) * 500

\* suggest_setup_price(tier_decision, selected_modules, tooling_level, transaction_volume)
suggest_setup_price(tier_decision, selected_modules, tooling_level, transaction_volume) ==
    LET module_count == Len(selected_modules)
    IN  IF tier_decision.tier = "MICRO"
        THEN LET raw_micro == tier_decision.min_price_mxn + module_count * 500
                 bounded_micro == Min(tier_decision.max_price_mxn,
                                      Max(tier_decision.min_price_mxn, raw_micro))
             IN  RoundHalfEven(bounded_micro, 100) * 100
        ELSE LET tooling_score == TOOLING_COMPLEXITY(Lower(Strip(tooling_level)))
                 volume_score == VolumeScore(Lower(Strip(transaction_volume)))
                 extra == module_count * 1500 + tooling_score * 2000 + volume_score * 2500
                 raw == tier_decision.min_price_mxn + extra
                 bounded == Min(tier_decision.max_price_mxn,
                                Max(tier_decision.min_price_mxn, raw))
             IN  RoundHalfEven(bounded, 500) * 500

\* a > b for amounts over the same denominator
AmountGreater(a, b) == a.w > b.w \/ (a.w = b.w /\ a.f > b.f)

\* max(a, b) for amounts over the same denominator
AmountMax(a, b) == IF AmountGreater(a, b) THEN a ELSE b

\* amount / 3
Third(a) == Amount(a.w \div 3, (a.w % 3) * a.d + a.f, 3 * a.d)

\* int(round(amount / 500.0) * 500)
RoundTo500(a) ==
    LET q == a.w \div 500
        r == (a.w % 500) * a.d + a.f
        half == 250 * a.d
    IN  (IF r < half THEN q
         ELSE IF r > half THEN q + 1
         ELSE IF q % 2 = 0 THEN q ELSE q + 1) * 500

PriceFloor == 1000

\* an ROI guard that compares against the whole annual savings instead of a third
GuardWithoutThird(price_mxn, annual_savings_mxn) ==
    LET d == 3 * annual_savings_mxn.d
        annual_savings == IF annual_savings_mxn.w < 0 THEN Amount(0, 0, annual_savings_mxn.d)
                          ELSE annual_savings_mxn
        max_for_3x == Third(annual_savings)
        whole == Amount(annual_savings.w, 3 * annual_savings.f, d)
        investment == Amount(Max(1, price_mxn), 0, d)
        adjusted == AmountGreater(whole, Amount(0, 0, d)) /\ AmountGreater(investment, whole)
        investment2 == IF adjusted THEN AmountMax(Amount(PriceFloor, 0, d), whole)
                       ELSE investment
    IN  [final_price |-> Max(PriceFloor, RoundTo500(investment2)),
         adjusted |-> adjusted,
         max_for_3x |-> max_for_3x]

\* a guard that prices at a third of the savings whatever the price it was given
GuardAlwaysThird(price_mxn, annual_savings_mxn) ==
    LET annual_savings == IF annual_savings_mxn.w < 0 THEN Amount(0, 0, annual_savings_mxn.d)
                          ELSE annual_savings_mxn
        max_for_3x == Third(annual_savings)
        adjusted == AmountGreater(max_for_3x, Amount(0, 0, 3 * annual_savings_mxn.d))
    IN  [final_price |-> IF adjusted THEN Max(PriceFloor, RoundTo500(max_for_3x))
                         ELSE Max(PriceFloor, price_mxn),
         adjusted |-> adjusted,
         max_for_3x |-> max_for_3x]

\* an ROI guard that rounds to 500 but forgets the floor of 1000
GuardWithoutFloor(price_mxn, annual_savings_mxn) ==
    LET d == 3 * annual_savings_mxn.d
        annual_savings == IF annual_savings_mxn.w < 0 THEN Amount(0, 0, annual_savings_mxn.d)
                          ELSE annual_savings_mxn
        max_for_3x == Third(annual_savings)
        investment == Amount(Max(1, price_mxn), 0, d)
        adjusted == AmountGreater(max_for_3x, Amount(0, 0, d))
                    /\ AmountGreater(investment, max_for_3x)
        investment2 == IF adjusted THEN AmountMax(Amount(PriceFloor, 0, d), max_for_3x)
                       ELSE investment
    IN  [final_price |-> RoundTo500(investment2),
         adjusted |-> adjusted,
         max_for_3x |-> max_for_3x]

\* enforce_irresistible_roi(price_mxn, annual_savings_mxn)
enforce_irresistible_roi(price_mxn, annual_savings_mxn) ==
    LET d == 3 * annual_savings_mxn.d
        annual_savings == IF annual_savings_mxn.w < 0 THEN Amount(0, 0, annual_savings_mxn.d)
                          ELSE annual_savings_mxn
        max_for_3x == Third(annual_savings)
        investment == Amount(Max(1, price_mxn), 0, d)
        adjusted == AmountGreater(max_for_3x, Amount(0, 0, d))
                    /\ AmountGreater(investment, max_for_3x)
        investment2 == IF adjusted THEN AmountMax(Amount(PriceFloor, 0, d), max_for_3x)
                       ELSE investment
    IN  [final_price |-> Max(PriceFloor, RoundTo500(investment2)),
         adjusted |-> adjusted,
         max_for_3x |-> max_for_3x]

\* an estimate that never reaches "high"
TwoLevelComplexity(num_empleados) ==
    IF num_empleados <= 5 THEN "low" ELSE "medium"

\* estimate_complexity_level(num_empleados)
estimate_complexity_level(num_empleados) ==
    IF num_empleados <= 5 THEN "low" ELSE IF num_empleados <= 25 THEN "medium" ELSE "high"

risk_admin_keywords == <<"carpeta", "carpetas", "archivo", "archivos", "organizar", "papeleo",
                         "documento", "documentos", "contrato", "firmar", "firma", "pdf">>

risk_finance_keywords == <<"banco", "conciliacion", "tesoreria", "contabilidad", "factura",
                           "facturacion", "inventario", "stock">>

\* _error_risk_factor(text, modulos_seleccionados), in hundredths
_error_risk_factor(text, modulos_seleccionados) ==
    LET raw == Lower(text)
        selected == Range(modulos_seleccionados)
    IN  IF "eficiencia_administrativa" \in selected \/ "documentos_inteligentes" \in selected
        THEN 35
        ELSE IF "conciliacion_automatica" \in selected \/ "inventarios_datos" \in selected
        THEN 25
        ELSE IF AnyIn(risk_admin_keywords, raw) THEN 35
        ELSE IF AnyIn(risk_finance_keywords, raw) THEN 25
        ELSE 15

---------------------------------------------------------------------------
(* llm.py: local heuristics *)

\* ", ".join(items)
RECURSIVE Join(_)
Join(items) ==
    IF items = <<>> THEN ""
    ELSE IF Len(items) = 1 THEN items[1]
    ELSE items[1] \o ", " \o Join(Tail(items))

health_keywords == <<"salud", "medico", "clinica", "consultorio", "dentista">>
food_keywords == <<"restaurante", "alimentos", "cocina", "chef", "comida">>

\* _industry_flags(payload)["regulated"]
_industry_flags(p) ==
    LET text == Lower(p.industry \o " " \o p.business_focus)
    IN  AnyIn(health_keywords, text) \/ AnyIn(food_keywords, text)

\* f"{hours * 4.33 / 8:.1f}"
JornadasText(hours) ==
    LET tenths == RoundHalfEven(hours * 433, 80)
    IN  ToString(tenths \div 10) \o "." \o ToString(tenths % 10)

FocusLimit == 140

\* _local_notes(payload, friction_points)
_local_notes(p, friction_points) ==
    LET joined == Join(friction_points)
        friction_summary == IF joined = "" THEN "operacion actual" ELSE joined
        team_target == IF p.team_size_target # 0
                       THEN "El equipo objetivo es " \o ToString(p.team_size_target) \o "."
                       ELSE ""
        focus == Strip(IF p.bottlenecks # "" THEN p.bottlenecks
                       ELSE IF p.processes # "" THEN p.processes ELSE "operaciones")
        focus_short == IF Len(focus) > FocusLimit THEN SubSeq(focus, 1, FocusLimit) \o "..."
                       ELSE focus
        hours == p.manual_hours_per_week
        hours_note == IF hours # 0
                      THEN "Hoy se regalan aprox. " \o JornadasText(hours)
                           \o " dias de sueldo al mes en tareas manuales."
                      ELSE ""
    IN  Strip("La empresa opera en " \o p.industry \o " (" \o p.business_focus \o "). "
              \o hours_note \o " "
              \o "El mayor bloqueo esta en: " \o friction_summary \o ". "
              \o "Prioridad inmediata: atacar " \o focus_short \o ". "
              \o team_target)

reasons == [n \in {
        "Bot de ventas para WhatsApp", "Chatbot de atencion al cliente",
        "Conciliacion automatica (banco vs ventas)", "Facturacion inteligente",
        "Sincronizacion Shopify-ERP", "Enriquecimiento y limpieza de CRM",
        "Reportes y dashboards operativos",
        "Eficiencia administrativa (archivos y carpetas)",
        "Generador de documentos inteligente"} |->
    CASE n = "Bot de ventas para WhatsApp" ->
            "captura pedidos y prospectos en WhatsApp, reduce tiempos de respuesta y agenda seguimiento"
      [] n = "Chatbot de atencion al cliente" ->
            "responde dudas frecuentes y libera carga al equipo en soporte"
      [] n = "Conciliacion automatica (banco vs ventas)" ->
            "detecta diferencias entre banco, ventas y hojas para evitar fugas, fraudes y retrabajo"
      [] n = "Facturacion inteligente" ->
            "genera y envia facturas automaticamente para evitar retrasos"
      [] n = "Sincronizacion Shopify-ERP" ->
            "actualiza inventario y pedidos en tiempo real para evitar stock desactualizado"
      [] n = "Enriquecimiento y limpieza de CRM" ->
            "ordena y limpia leads para que ventas enfoque esfuerzo en prospectos reales"
      [] n = "Reportes y dashboards operativos" ->
            "da visibilidad diaria de ventas, inventario y cumplimiento"
      [] n = "Eficiencia administrativa (archivos y carpetas)" ->
            "automatiza carpetas y archivos para que nunca se pierdan documentos y todo quede ordenado 24/7"
      [] n = "Generador de documentos inteligente" ->
            "genera contratos/cotizaciones/facturas en PDF sin errores, sin copiar y pegar"]

OpportunityOf(name) ==
    name \o ": "
    \o (IF name \in DOMAIN reasons THEN reasons[name]
        ELSE "automatiza una tarea repetitiva clave de tu operacion")
    \o "."

OpportunityCut == 4

\* _local_insights(payload, friction_points, recommended, optional)
_local_insights(p, friction_points, recommended, optional) ==
    LET text == Lower(p.processes \o " " \o p.bottlenecks \o " " \o p.systems)
        top == Take(recommended, OpportunityCut)
        opportunities ==
            IF top = <<>>
            THEN <<"Priorizar tareas administrativas repetitivas para ahorrar tiempo.">>
            ELSE [i \in 1..Len(top) |-> OpportunityOf(top[i])]
        limitations ==
            <<"Se requiere validacion humana antes de mover dinero, datos sensibles o decisiones finales.">>
            \o (IF _industry_flags(p)
                THEN <<"En rubros regulados, la automatizacion se limita a procesos administrativos, no al servicio humano.">>
                ELSE <<>>)
            \o (IF p.team_focus_same = "False"
                THEN <<"Equipo mixto: priorizar procesos transversales primero.">>
                ELSE <<>>)
        data_needed ==
            <<"Accesos a sistemas: " \o p.systems \o ".",
              "Volumen mensual de operaciones (ventas, tickets, pedidos).",
              "Responsable interno para validar procesos y cambios.">>
            \o (IF Contains("inventario", text)
                THEN <<"Catalogo de productos e inventario actualizado.">> ELSE <<>>)
            \o (IF Contains("factura", text) \/ Contains("facturacion", text)
                THEN <<"Acceso al sistema de facturacion o CFDI.">> ELSE <<>>)
            \o (IF Contains("whatsapp", text)
                THEN <<"Linea y API de WhatsApp Business (o proveedor actual).">> ELSE <<>>)
            \o (IF optional # <<>>
                THEN <<"Confirmar si quieres activar opciones adicionales.">> ELSE <<>>)
    IN  [summary |-> _local_notes(p, friction_points),
         opportunities |-> opportunities,
         limitations |-> limitations,
         data_needed |-> data_needed,
         extra_options |-> optional]

PrimaryLimit == 140

\* fallback_result of consultant_diagnosis
FallbackResult(p, friction, recommended_guess, optional_guess) ==
    LET fallback == _local_insights(p, friction, recommended_guess, optional_guess)
        stripped == Strip(p.bottlenecks)
        head == IF Len(stripped) > PrimaryLimit THEN SubSeq(stripped, 1, PrimaryLimit)
                ELSE stripped
    IN  [raised |-> FALSE,
         primary_bottleneck |-> IF head # "" THEN head
                                ELSE IF friction # <<>> THEN friction[1] ELSE "",
         pain_points |-> IF friction # <<>> THEN friction ELSE <<GenericFriction>>,
         recommended_modules |-> recommended_guess,
         optional_modules |-> optional_guess,
         summary |-> fallback.summary,
         opportunities |-> fallback.opportunities,
         limitations |-> fallback.limitations,
         data_needed |-> fallback.data_needed,
         extra_options |-> fallback.extra_options,
         complexity_level |-> NONE]

---------------------------------------------------------------------------
(* llm.py: the model's reply and its merge into the diagnosis *)

(* A JSON value of the reply: t is its type, s the text str() gives for a   *)
(* string or a number (for an object: the text of its "level" entry, "" if  *)
(* it has none), items the elements of a list, size the number of entries   *)
(* of an object.  A missing key reads as None, like dict.get.               *)
JAbsent == [t |-> "absent", s |-> "", items |-> <<>>, size |-> 0]
JStr(text) == [t |-> "str", s |-> text, items |-> <<>>, size |-> 0]
JNum(text) == [t |-> "num", s |-> text, items |-> <<>>, size |-> 0]
JList(items) == [t |-> "list", s |-> "", items |-> items, size |-> 0]
JObj(level, size) == [t |-> "obj", s |-> level, items |-> <<>>, size |-> size]

\* bool(value)
Truthy(j) ==
    CASE j.t = "str" -> j.s # ""
      [] j.t = "num" -> j.s # "0"
      [] j.t = "list" -> j.items # <<>>
      [] j.t = "obj" -> j.size > 0
      [] OTHER -> FALSE

RECURSIVE ReprItems(_)
ReprItems(items) ==
    IF items = <<>> THEN ""
    ELSE (IF Head(items).t = "str" THEN "'" \o Head(items).s \o "'" ELSE Head(items).s)
         \o (IF Len(items) > 1 THEN ", " ELSE "") \o ReprItems(Tail(items))

\* str(value)
PyStr(j) ==
    CASE j.t = "str" -> j.s
      [] j.t = "num" -> j.s
      [] j.t = "list" -> "[" \o ReprItems(j.items) \o "]"
      [] j.t = "obj" -> IF j.size = 0 THEN "{}" ELSE "{'level': '" \o j.s \o "'}"
      [] OTHER -> "None"

\* str(value or "").strip()
TextOrEmpty(j) == IF Truthy(j) THEN Strip(PyStr(j)) ELSE ""

\* [str(item).strip() for item in items if str(item).strip()]
RECURSIVE Cleaned(_)
Cleaned(items) ==
    IF items = <<>> THEN <<>>
    ELSE LET text == Strip(PyStr(Head(items)))
         IN  (IF text # "" THEN <<text>> ELSE <<>>) \o Cleaned(Tail(items))

\* _list(name, default) of consultant_diagnosis
_list(value, default) == IF value.t # "list" THEN default ELSE Cleaned(value.items)

\* the same loop over a Python list of strings
RECURSIVE CleanedTexts(_)
CleanedTexts(texts) ==
    IF texts = <<>> THEN <<>>
    ELSE LET text == Strip(Head(texts))
         IN  (IF text # "" THEN <<text>> ELSE <<>>) \o CleanedTexts(Tail(texts))

\* the stripped texts of a list field, or of the fallback list when it is not a list
ListTexts(value, default) ==
    IF value.t # "list" THEN CleanedTexts(default) ELSE Cleaned(value.items)

\* a filter that forgets the catalog and drops only the excluded names
RECURSIVE KeepUnfiltered(_, _, _)
KeepUnfiltered(texts, keep, drop) ==
    IF texts = <<>> THEN <<>>
    ELSE (IF Head(texts) \notin drop THEN <<Head(texts)>> ELSE <<>>)
         \o KeepUnfiltered(Tail(texts), keep, drop)

\* [x for x in texts if x in keep and x not in drop]
RECURSIVE Keep(_, _, _)
Keep(texts, keep, drop) ==
    IF texts = <<>> THEN <<>>
    ELSE (IF Head(texts) \in keep /\ Head(texts) \notin drop THEN <<Head(texts)>> ELSE <<>>)
         \o Keep(Tail(texts), keep, drop)

\* the texts of a module-name list with the blanks kept, as the membership test sees them
RECURSIVE Stripped(_)
Stripped(items) ==
    IF items = <<>> THEN <<>>
    ELSE <<Strip(PyStr(Head(items)))>> \o Stripped(Tail(items))

RECURSIVE StrippedTexts(_)
StrippedTexts(texts) ==
    IF texts = <<>> THEN <<>>
    ELSE <<Strip(Head(texts))>> \o StrippedTexts(Tail(texts))

NameTexts(value, default) ==
    IF value.t # "list" THEN StrippedTexts(default) ELSE Stripped(value.items)

PainCut == 6
OpportunitiesCut == 6
LimitationsCut == 3
DataNeededCut == 6
ExtraOptionsCut == 4
ModelRecommendedCut == 5
ModelOptionalCut == 4

\* consultant_diagnosis from "primary = ..." to its return, for the parsed reply.
\* complexity_data.get raises AttributeError when complexity_assessment is a
\* non-empty string or list or a non-zero number: raised records that.
Merge(parsed, fb, module_set, recommended_guess) ==
    LET primary0 == TextOrEmpty(parsed.primary_bottleneck)
        pain0 == Take(ListTexts(parsed.pain_points, fb.pain_points), PainCut)
        rec0 == Take(Keep(NameTexts(parsed.recommended_modules, fb.recommended_modules),
                          module_set, {}), ModelRecommendedCut)
        rec1 == Take(Keep(recommended_guess, module_set, {}), ModelRecommendedCut)
        rec_names == IF rec0 # <<>> THEN rec0
                     ELSE IF rec1 # <<>> THEN rec1 ELSE fb.recommended_modules
        opt_names == Take(Keep(NameTexts(parsed.optional_modules, fb.optional_modules),
                               module_set, Range(rec_names)), ModelOptionalCut)
        summary0 == TextOrEmpty(parsed.summary)
        complexity_data == parsed.complexity_assessment
        isDict == ~Truthy(complexity_data) \/ complexity_data.t = "obj"
        level == IF Truthy(complexity_data) /\ isDict
                 THEN Lower(Strip(complexity_data.s)) ELSE ""
    IN  [raised |-> ~isDict,
         primary_bottleneck |-> IF primary0 # "" THEN primary0 ELSE fb.primary_bottleneck,
         pain_points |-> IF pain0 # <<>> THEN pain0 ELSE fb.pain_points,
         recommended_modules |-> rec_names,
         optional_modules |-> opt_names,
         summary |-> IF summary0 # "" THEN summary0 ELSE fb.summary,
         opportunities |-> Take(_list(parsed.opportunities, fb.opportunities),
                                OpportunitiesCut),
         limitations |-> Take(_list(parsed.limitations, fb.limitations), LimitationsCut),
         data_needed |-> Take(_list(parsed.data_needed, fb.data_needed), DataNeededCut),
         extra_options |-> Take(_list(parsed.extra_options, fb.extra_options),
                                ExtraOptionsCut),
         complexity_level |-> IF level \in {"low", "medium", "high"} THEN level ELSE NONE]

\* the reply object with no key at all: what "_extract_json(text) or {}" yields for
\* a text without a JSON object, and for the text "{}"
EmptyObject ==
    [primary_bottleneck |-> JAbsent, pain_points |-> JAbsent,
     recommended_modules |-> JAbsent, optional_modules |-> JAbsent,
     summary |-> JAbsent, opportunities |-> JAbsent, limitations |-> JAbsent,
     data_needed |-> JAbsent, extra_options |-> JAbsent,
     complexity_assessment |-> JAbsent]

NoReply == [kind |-> "none", parsed |-> EmptyObject]

\* os.getenv("GEMINI_API_KEY", "") read without .strip()
UnstrippedKey(env) == env

\* os.getenv("GEMINI_API_KEY", "").strip()
GEMINI_API_KEY(env) == Strip(env)

\* consultant_diagnosis(payload, friction_points_guess, available_modules, roi_context,
\* recommended_guess, optional_guess) from line 231 on, given its fallback_result and
\* what _call_gemini returned
consultant_diagnosis(env, fb, recommended_guess, text) ==
    IF GEMINI_API_KEY(env) = "" \/ CatalogNames = {} THEN fb
    ELSE IF text.kind = "none" THEN fb
    ELSE Merge(text.parsed, fb, CatalogNames, recommended_guess)

---------------------------------------------------------------------------
(* analysis.py: run_analysis from the refined complexity to the AnalysisOutput *)

\* str.title() on the three complexity levels
Title(level) ==
    CASE level = "low" -> "Low" [] level = "medium" -> "Medium" [] level = "high" -> "High"
      [] OTHER -> level

PainText(p) == p.bottlenecks \o " " \o p.processes \o " " \o p.systems \o " " \o p.goals

Raised == [raised |-> TRUE]

\* a final assembly that takes the optional names without removing the recommended ones
AssembleWithOverlap(p, diag, rec_guess, opt_guess, friction_guess) ==
    LET recommended_names == IF diag.recommended_modules # <<>>
                             THEN diag.recommended_modules ELSE rec_guess
        optional_names == IF diag.optional_modules # <<>>
                          THEN diag.optional_modules ELSE opt_guess
        modules0 == Keep(recommended_names, CatalogNames, {})
        modules == IF modules0 # <<>> THEN modules0
                   ELSE IF rec_guess # <<>> THEN rec_guess ELSE Take(AllCatalogNames, 3)
    IN  [friction_points |-> IF diag.pain_points # <<>> THEN diag.pain_points
                             ELSE friction_guess,
         recommended_modules |-> modules,
         optional_modules |-> Keep(optional_names, CatalogNames, {})]

\* run_analysis lines 455-463: final pain points and modules
AssembleModules(p, diag, rec_guess, opt_guess, friction_guess) ==
    LET recommended_names == IF diag.recommended_modules # <<>>
                             THEN diag.recommended_modules ELSE rec_guess
        optional_names == IF diag.optional_modules # <<>>
                          THEN diag.optional_modules ELSE opt_guess
        modules0 == Keep(recommended_names, CatalogNames, {})
        modules == IF modules0 # <<>> THEN modules0
                   ELSE IF rec_guess # <<>> THEN rec_guess ELSE Take(AllCatalogNames, 3)
    IN  [friction_points |-> IF diag.pain_points # <<>> THEN diag.pain_points
                             ELSE friction_guess,
         recommended_modules |-> modules,
         optional_modules |-> Keep(optional_names, CatalogNames, Range(modules))]

\* run_analysis lines 413-453: the pricing quote
PricingQuote(p, diag, rec_guess) ==
    LET heuristic_level == estimate_complexity_level(p.team_size)
        selected_for_pricing == IF p.selected_modules # <<>> THEN p.selected_modules
                                ELSE rec_guess
        gpt_level == diag.complexity_level
        final_level == IF gpt_level # NONE THEN gpt_level ELSE heuristic_level
        tier_decision == decide_service_tier(p, PainText(p), selected_for_pricing, final_level)
        base_setup == suggest_setup_price(tier_decision, selected_for_pricing,
                                          p.tooling_level, p.transaction_volume)
        roi_annual_formula == RoiAnnualFormula(p, Len(rec_guess))
        guard == enforce_irresistible_roi(base_setup, roi_annual_formula)
    IN  [setup_fee_mxn |-> guard.final_price,
         monthly_retainer_mxn |-> 0,
         implementation_tier |-> Title(final_level),
         service_tier |-> tier_decision.tier,
         service_tier_reason |-> tier_decision.reason,
         suggested_range_min_mxn |-> tier_decision.min_price_mxn,
         suggested_range_max_mxn |-> tier_decision.max_price_mxn,
         roi_annual_formula |-> roi_annual_formula,
         roi_adjusted_to_3x |-> guard.adjusted,
         base_setup |-> base_setup]

\* run_analysis(payload), from the diagnosis on: the AnalysisOutput, or the error
\* consultant_diagnosis raised
AnalysisOutput(p, diag, rec_guess, opt_guess, friction_guess) ==
    IF diag.raised THEN Raised
    ELSE LET lists == AssembleModules(p, diag, rec_guess, opt_guess, friction_guess)
         IN  [raised |-> FALSE,
              friction_points |-> lists.friction_points,
              recommended_modules |-> lists.recommended_modules,
              optional_modules |-> lists.optional_modules,
              opportunities |-> diag.opportunities,
              limitations |-> diag.limitations,
              data_needed |-> diag.data_needed,
              primary_bottleneck |-> diag.primary_bottleneck,
              pricing |-> PricingQuote(p, diag, rec_guess),
              notes |-> diag.summary]

---------------------------------------------------------------------------
(* storage.py: the persisted diagnosis. json.dumps(analysis.model_dump()) is
   modelled as the same nesting of objects and lists whose scalars are the texts
   json writes; json.loads reads each text back. Floats are amounts with two
   decimals, held in cents, as run_analysis rounds them. *)

\* str(n) for an integer
RECURSIVE IntText(_)
IntText(n) ==
    IF n < 0 THEN "-" \o IntText(0 - n)
    ELSE IF n < 10 THEN SubSeq("0123456789", n + 1, n + 1)
    ELSE IntText(n \div 10) \o SubSeq("0123456789", (n % 10) + 1, (n % 10) + 1)

\* float.__repr__ of cents / 100: the shortest text that reads back as the same
\* float, with at least one decimal
CentsText(cents) ==
    LET a == IF cents < 0 THEN 0 - cents ELSE cents
        frac == a % 100
    IN  (IF cents < 0 THEN "-" ELSE "") \o IntText(a \div 100) \o "."
        \o (IF frac % 10 = 0 THEN IntText(frac \div 10)
            ELSE IntText(frac \div 10) \o IntText(frac % 10))

\* the escapes json.dumps(..., ensure_ascii=False) writes inside a string
RECURSIVE EscapeText(_)
EscapeText(s) ==
    IF Len(s) = 0 THEN ""
    ELSE IF Len(s) = 1
    THEN CASE s = "\"" -> "\\\""
           [] s = "\\" -> "\\\\"
           [] s = "\n" -> "\\n"
           [] s = "\t" -> "\\t"
           [] OTHER -> s
    ELSE EscapeText(SubSeq(s, 1, Len(s) \div 2))
         \o EscapeText(SubSeq(s, Len(s) \div 2 + 1, Len(s)))

\* an encoder that writes strings between quotes without escaping them
RawDumps(kind, v) ==
    CASE kind = "str" -> "\"" \o v \o "\""
      [] kind = "int" -> IntText(v)
      [] kind = "float" -> CentsText(v)
      [] kind = "bool" -> (IF v THEN "true" ELSE "false")
      [] OTHER -> "null"

\* json.dumps of one scalar: a str, an int, a float, a bool or None
json_dumps(kind, v) ==
    CASE kind = "str" -> "\"" \o EscapeText(v) \o "\""
      [] kind = "int" -> IntText(v)
      [] kind = "float" -> CentsText(v)
      [] kind = "bool" -> (IF v THEN "true" ELSE "false")
      [] OTHER -> "null"

\* the number of consecutive backslashes that end just before position i
RECURSIVE BackslashRun(_, _)
BackslashRun(text, i) ==
    IF i <= 1 \/ SubSeq(text, i - 1, i - 1) # "\\" THEN 0
    ELSE 1 + BackslashRun(text, i - 1)

\* the characters that positions lo..hi of a JSON string stand for
RECURSIVE UnescapeRange(_, _, _)
UnescapeRange(text, lo, hi) ==
    IF lo > hi THEN ""
    ELSE IF lo = hi
    THEN LET c == SubSeq(text, lo, lo)
         IN  IF BackslashRun(text, lo) % 2 = 1
             THEN CASE c = "n" -> "\n" [] c = "t" -> "\t" [] OTHER -> c
             ELSE IF c = "\\" THEN "" ELSE c
    ELSE UnescapeRange(text, lo, (lo + hi) \div 2)
         \o UnescapeRange(text, (lo + hi) \div 2 + 1, hi)

\* int(text) for a text of decimal digits; -1 for any other text
RECURSIVE DigitsValue(_)
DigitsValue(text) ==
    IF Len(text) = 0 THEN -1
    ELSE LET last == SubSeq(text, Len(text), Len(text))
             digit == IF \E k \in 0..9 : IntText(k) = last
                      THEN CHOOSE k \in 0..9 : IntText(k) = last ELSE -1
         IN  IF digit < 0 THEN -1
             ELSE IF Len(text) = 1 THEN digit
             ELSE LET front == DigitsValue(SubSeq(text, 1, Len(text) - 1))
                  IN  IF front < 0 THEN -1 ELSE 10 * front + digit

JsonValue(t, s, n, b) == [t |-> t, s |-> s, n |-> n, b |-> b]

\* json.loads of one scalar text: t is "str", "int", "float" (n in cents), "bool",
\* "null", or "error" when the text is not one JSON value
json_loads(text) ==
    LET len == Len(text)
        negative == len > 0 /\ SubSeq(text, 1, 1) = "-"
        digits == IF negative THEN SubSeq(text, 2, len) ELSE text
        dots == {i \in 1..Len(digits) : SubSeq(digits, i, i) = "."}
        sign == IF negative THEN -1 ELSE 1
    IN  IF text = "null" THEN JsonValue("null", "", 0, FALSE)
        ELSE IF text = "true" THEN JsonValue("bool", "", 0, TRUE)
        ELSE IF text = "false" THEN JsonValue("bool", "", 0, FALSE)
        ELSE IF len > 0 /\ SubSeq(text, 1, 1) = "\""
        THEN LET closing == {i \in 2..len : /\ SubSeq(text, i, i) = "\""
                                           /\ BackslashRun(text, i) % 2 = 0}
             IN  IF closing = {} \/ (\E i \in closing : i < len)
                 THEN JsonValue("error", "", 0, FALSE)
                 ELSE JsonValue("str", UnescapeRange(text, 2, len - 1), 0, FALSE)
        ELSE IF dots = {}
        THEN LET value == DigitsValue(digits)
             IN  IF value < 0 THEN JsonValue("error", "", 0, FALSE)
                 ELSE JsonValue("int", "", sign * value, FALSE)
        ELSE LET dot == CHOOSE i \in dots : TRUE
                 whole == DigitsValue(SubSeq(digits, 1, dot - 1))
                 decimals == SubSeq(digits, dot + 1, Len(digits))
                 frac == DigitsValue(decimals)
             IN  IF Cardinality(dots) > 1 \/ whole < 0 \/ frac < 0 \/ Len(decimals) > 2
                 THEN JsonValue("error", "", 0, FALSE)
                 ELSE JsonValue("float", "",
                                sign * (100 * whole
                                        + (IF Len(decimals) = 1 THEN 10 * frac ELSE frac)),
                                FALSE)

\* max(2, min(6, math.floor(build_weeks / 2)))
FloorWeeks(build_weeks) == Max(2, Min(6, build_weeks \div 2))

\* analysis.py line 314: max(2, min(6, math.ceil(build_weeks / 2)))
ImplementationWeeks(build_weeks) == Max(2, Min(6, (build_weeks + 1) \div 2))

\* _build_roadmap(modules, implementation_eta); None and "" are both "no hint"
_build_roadmap(modules, implementation_eta) ==
    LET weeks[i \in 0..Len(modules)] ==
            IF i = 0 THEN 0 ELSE weeks[i - 1] + modules[i].estimated_weeks
        build_weeks == weeks[Len(modules)]
        hinted == implementation_eta # NONE /\ implementation_eta # ""
        short == hinted /\ LET eta == Lower(implementation_eta)
                           IN  Contains("hora", eta) \/ Contains("dia", eta)
        diagnostic_label == IF short THEN "1-2 dias" ELSE "1 semana"
        implementation_weeks == IF short THEN 1 ELSE ImplementationWeeks(build_weeks)
    IN  <<[name |-> "Diagnostico", focus |-> "Diagnostico y mapeo de procesos",
           duration_weeks |-> 1, duration_label |-> diagnostic_label,
           deliverable |-> "Mapa de flujo y lista priorizada"],
          [name |-> "Implementacion", focus |-> "Automatizaciones modulares y pruebas",
           duration_weeks |-> implementation_weeks,
           duration_label |-> implementation_eta,
           deliverable |-> "Flujos en produccion con control de calidad"],
          [name |-> "Escala", focus |-> "Optimizacion de prompts, monitoreo y mejoras",
           duration_weeks |-> 1, duration_label |-> "1 semana",
           deliverable |-> "Tablero de indicadores y plan de mejora continua"]>>

\* the AnalysisOutput object run_analysis returns, with its nested models: the
\* modules of the catalog, the roadmap, and the amounts of the quote rounded to
\* two decimals (in cents)
AnalysisObject(out) ==
    LET module(name) == catalog[CHOOSE i \in 1..Len(catalog) : catalog[i].name = name]
        modules == [i \in 1..Len(out.recommended_modules) |->
                        module(out.recommended_modules[i])]
        roi == out.pricing.roi_annual_formula
        roi_cents == 100 * roi.w + RoundHalfEven(100 * roi.f, roi.d)
    IN  [friction_points |-> out.friction_points,
         recommended_modules |-> modules,
         optional_modules |-> [i \in 1..Len(out.optional_modules) |->
                                  module(out.optional_modules[i])],
         opportunities |-> out.opportunities,
         limitations |-> out.limitations,
         data_needed |-> out.data_needed,
         primary_bottleneck |-> out.primary_bottleneck,
         roadmap |-> _build_roadmap(modules, NONE),
         pricing |-> [setup_fee_mxn |-> out.pricing.setup_fee_mxn,
                      monthly_retainer_mxn |-> out.pricing.monthly_retainer_mxn,
                      implementation_tier |-> out.pricing.implementation_tier,
                      implementation_eta |-> NONE,
                      service_tier |-> out.pricing.service_tier,
                      service_tier_reason |-> out.pricing.service_tier_reason,
                      suggested_range_min_mxn |-> out.pricing.suggested_range_min_mxn,
                      suggested_range_max_mxn |-> out.pricing.suggested_range_max_mxn,
                      roi_annual_formula_mxn |-> roi_cents,
                      roi_annual_net_mxn |-> roi_cents - 100 * out.pricing.setup_fee_mxn,
                      roi_adjusted_to_3x |-> out.pricing.roi_adjusted_to_3x],
         notes |-> out.notes]

\* json.dumps(analysis.model_dump(), ensure_ascii=False)
model_dump_json(a) ==
    LET str(v) == json_dumps("str", v)
        opt(v) == json_dumps(IF v = NONE THEN "none" ELSE "str", v)
        int(v) == json_dumps("int", v)
        strs(q) == [i \in 1..Len(q) |-> str(q[i])]
        modules(q) == [i \in 1..Len(q) |->
                          [name |-> str(q[i].name),
                           estimated_weeks |-> int(q[i].estimated_weeks),
                           tags |-> strs(q[i].tags)]]
    IN  [friction_points |-> strs(a.friction_points),
         recommended_modules |-> modules(a.recommended_modules),
         optional_modules |-> modules(a.optional_modules),
         opportunities |-> strs(a.opportunities),
         limitations |-> strs(a.limitations),
         data_needed |-> strs(a.data_needed),
         primary_bottleneck |-> str(a.primary_bottleneck),
         roadmap |-> [i \in 1..Len(a.roadmap) |->
                         [name |-> str(a.roadmap[i].name),
                          focus |-> str(a.roadmap[i].focus),
                          duration_weeks |-> int(a.roadmap[i].duration_weeks),
                          duration_label |-> opt(a.roadmap[i].duration_label),
                          deliverable |-> str(a.roadmap[i].deliverable)]],
         pricing |-> [setup_fee_mxn |-> int(a.pricing.setup_fee_mxn),
                      monthly_retainer_mxn |-> int(a.pricing.monthly_retainer_mxn),
                      implementation_tier |-> opt(a.pricing.implementation_tier),
                      implementation_eta |-> opt(a.pricing.implementation_eta),
                      service_tier |-> opt(a.pricing.service_tier),
                      service_tier_reason |-> opt(a.pricing.service_tier_reason),
                      suggested_range_min_mxn |-> int(a.pricing.suggested_range_min_mxn),
                      suggested_range_max_mxn |-> int(a.pricing.suggested_range_max_mxn),
                      roi_annual_formula_mxn |->
                          json_dumps("float", a.pricing.roi_annual_formula_mxn),
                      roi_annual_net_mxn |->
                          json_dumps("float", a.pricing.roi_annual_net_mxn),
                      roi_adjusted_to_3x |->
                          json_dumps("bool", a.pricing.roi_adjusted_to_3x)],
         notes |-> str(a.notes)]

\* AnalysisOutput(**json.loads(row["diagnosis_json"])): every scalar is read back
\* and validated against the type of its field (a float field takes an int, an int
\* field takes a float without decimals, an Optional field takes null); a value
\* of another type raises
AnalysisFromJson(doc) ==
    LET t(text) == json_loads(text).t
        isStr(text) == t(text) = "str"
        isOpt(text) == t(text) \in {"str", "null"}
        isInt(text) == t(text) = "int"
                       \/ (t(text) = "float" /\ json_loads(text).n % 100 = 0)
        isFloat(text) == t(text) \in {"int", "float"}
        str(text) == json_loads(text).s
        opt(text) == IF t(text) = "null" THEN NONE ELSE json_loads(text).s
        int(text) == IF t(text) = "int" THEN json_loads(text).n
                     ELSE json_loads(text).n \div 100
        float(text) == IF t(text) = "float" THEN json_loads(text).n
                       ELSE 100 * json_loads(text).n
        areStrs(q) == \A i \in 1..Len(q) : isStr(q[i])
        strs(q) == [i \in 1..Len(q) |-> str(q[i])]
        areModules(q) == \A i \in 1..Len(q) :
                            /\ isStr(q[i].name) /\ isInt(q[i].estimated_weeks)
                            /\ areStrs(q[i].tags)
        modules(q) == [i \in 1..Len(q) |->
                          [name |-> str(q[i].name),
                           estimated_weeks |-> int(q[i].estimated_weeks),
                           tags |-> strs(q[i].tags)]]
        p == doc.pricing
        valid ==
            /\ areStrs(doc.friction_points) /\ areStrs(doc.opportunities)
            /\ areStrs(doc.limitations) /\ areStrs(doc.data_needed)
            /\ areModules(doc.recommended_modules) /\ areModules(doc.optional_modules)
            /\ isStr(doc.primary_bottleneck) /\ isStr(doc.notes)
            /\ \A i \in 1..Len(doc.roadmap) :
                  /\ isStr(doc.roadmap[i].name) /\ isStr(doc.roadmap[i].focus)
                  /\ isInt(doc.roadmap[i].duration_weeks)
                  /\ isOpt(doc.roadmap[i].duration_label)
                  /\ isStr(doc.roadmap[i].deliverable)
            /\ isInt(p.setup_fee_mxn) /\ isInt(p.monthly_retainer_mxn)
            /\ isOpt(p.implementation_tier) /\ isOpt(p.implementation_eta)
            /\ isOpt(p.service_tier) /\ isOpt(p.service_tier_reason)
            /\ isInt(p.suggested_range_min_mxn) /\ isInt(p.suggested_range_max_mxn)
            /\ isFloat(p.roi_annual_formula_mxn) /\ isFloat(p.roi_annual_net_mxn)
            /\ t(p.roi_adjusted_to_3x) = "bool"
    IN  IF ~valid THEN Raised
        ELSE [friction_points |-> strs(doc.friction_points),
              recommended_modules |-> modules(doc.recommended_modules),
              optional_modules |-> modules(doc.optional_modules),
              opportunities |-> strs(doc.opportunities),
              limitations |-> strs(doc.limitations),
              data_needed |-> strs(doc.data_needed),
              primary_bottleneck |-> str(doc.primary_bottleneck),
              roadmap |-> [i \in 1..Len(doc.roadmap) |->
                              [name |-> str(doc.roadmap[i].name),
                               focus |-> str(doc.roadmap[i].focus),
                               duration_weeks |-> int(doc.roadmap[i].duration_weeks),
                               duration_label |-> opt(doc.roadmap[i].duration_label),
                               deliverable |-> str(doc.roadmap[i].deliverable)]],
              pricing |-> [setup_fee_mxn |-> int(p.setup_fee_mxn),
                           monthly_retainer_mxn |-> int(p.monthly_retainer_mxn),
                           implementation_tier |-> opt(p.implementation_tier),
                           implementation_eta |-> opt(p.implementation_eta),
                           service_tier |-> opt(p.service_tier),
                           service_tier_reason |-> opt(p.service_tier_reason),
                           suggested_range_min_mxn |-> int(p.suggested_range_min_mxn),
                           suggested_range_max_mxn |-> int(p.suggested_range_max_mxn),
                           roi_annual_formula_mxn |-> float(p.roi_annual_formula_mxn),
                           roi_annual_net_mxn |-> float(p.roi_annual_net_mxn),
                           roi_adjusted_to_3x |-> json_loads(p.roi_adjusted_to_3x).b],
              notes |-> str(doc.notes)]

---------------------------------------------------------------------------
(* The intakes and the replies the model is explored with *)

MaxHours == 6
MaxCandidates == 2

BasePayload ==
    [industry |-> "Comercio", business_focus |-> "Tienda de ropa", team_size |-> 3,
     team_size_target |-> 0, team_focus_same |-> "None", team_roles |-> "",
     employee_band |-> "", transaction_volume |-> "", tooling_level |-> "",
     manual_hours_per_week |-> 0, manual_days_per_week |-> 0, selected_modules |-> <<>>,
     processes |-> "", bottlenecks |-> "Copiamos datos a Excel",
     systems |-> "", goals |-> ""]

BottleneckTexts ==
    {"Copiamos datos a Excel",
     "Se pierden pedidos, inventario   viejo",
     "WhatsApp soporte inventario facturas reportes banco lento"}

ProcessTexts == {"", "Vendemos en Shopify"}

SelectedLists == {<<>>, <<"inventarios_datos", "whatsapp_ventas">>}

\* team sizes on both sides of the two thresholds of estimate_complexity_level
TeamSizes == {5, 6, 25, 26}

Payloads ==
    {[BasePayload EXCEPT !.bottlenecks = b, !.processes = pr, !.selected_modules = sel,
                         !.manual_hours_per_week = h] :
        b \in BottleneckTexts, pr \in ProcessTexts, sel \in SelectedLists,
        h \in {0, MaxHours}}
    \cup {[BasePayload EXCEPT !.team_size = n] : n \in TeamSizes}

KeyValues == {"", "  ", "AIza-key"}

RecommendedReplies ==
    {JAbsent,
     JList(<<JStr(ShopifyErp), JStr(" Bot de ventas para WhatsApp ")>>),
     JList(<<JStr("Modulo inventado")>>),
     JList(<<JStr("Facturacion inteligente"), JStr("Facturacion inteligente"),
             JStr("Reportes y dashboards operativos"), JStr("Ruteo de tickets de soporte"),
             JStr("Enriquecimiento y limpieza de CRM"), JStr("Onboarding de personal")>>),
     JStr("Facturacion inteligente")}

OptionalReplies ==
    {JAbsent,
     JList(<<JStr(ShopifyErp), JStr("Facturacion inteligente"), JStr("Modulo inventado")>>),
     JList(<<JStr("Bot de ventas para WhatsApp"), JStr("Chatbot de atencion al cliente"),
             JStr("Automatizacion de correo"), JStr("Onboarding de personal"),
             JStr("Enriquecimiento y limpieza de CRM"),
             JStr("Conciliacion bancaria automatica")>>)}

ComplexityReplies ==
    {JAbsent, JObj("high", 2), JObj(" Medium ", 2), JObj("extreme", 2), JStr("high"),
     JList(<<JStr("high")>>)}

WellFormedRest ==
    [primary_bottleneck |-> JStr("La captura manual frena las ventas"),
     pain_points |-> JList(<<JStr("Se pierden ventas"), JStr(" Cierres tardios ")>>),
     summary |-> JStr("La empresa pierde jornadas completas en captura."),
     opportunities |-> JList(<<JStr("Automatizar: ahorra jornadas"), JStr("Medir: da control")>>),
     limitations |-> JList(<<JStr("No sustituye la venta consultiva")>>),
     data_needed |-> JList(<<JStr("Lista de precios"), JStr("Catalogo")>>),
     extra_options |-> JList(<<JStr("Recordatorios")>>)]

IllTypedRest ==
    [primary_bottleneck |-> JNum("7"),
     pain_points |-> JStr("todo es lento"),
     summary |-> JList(<<JStr("resumen")>>),
     opportunities |-> JStr("vender mas"),
     limitations |-> JNum("0"),
     data_needed |-> JObj("", 1),
     extra_options |-> JStr("nada")]

MixedRest ==
    [primary_bottleneck |-> JStr("La captura manual frena las ventas"),
     pain_points |-> JStr("todo es lento"),
     summary |-> JStr("La empresa pierde jornadas completas en captura."),
     opportunities |-> JStr("vender mas"),
     limitations |-> JList(<<JStr("No sustituye la venta consultiva")>>),
     data_needed |-> JList(<<>>),
     extra_options |-> JAbsent]

OversizeRest ==
    [primary_bottleneck |-> JStr("   "),
     pain_points |-> JList(<<JStr("p1"), JStr("  "), JNum("2"), JStr("p3"), JStr("p4"),
                             JStr("p5"), JStr("p6"), JStr("p7")>>),
     summary |-> JStr(""),
     opportunities |-> JList(<<JStr("  ")>>),
     limitations |-> JList(<<JStr("l1"), JStr("l2"), JStr("l3"), JStr("l4")>>),
     data_needed |-> JList(<<JStr("d1"), JStr("d2"), JStr("d3"), JStr("d4"), JStr("d5"),
                             JStr("d6"), JStr("d7")>>),
     extra_options |-> JList(<<JStr("e1"), JStr("e2"), JStr("e3"), JStr("e4"), JStr("e5")>>)]

AbsentRest ==
    [primary_bottleneck |-> JAbsent, pain_points |-> JAbsent, summary |-> JAbsent,
     opportunities |-> JAbsent, limitations |-> JAbsent, data_needed |-> JAbsent,
     extra_options |-> JAbsent]

RestReplies == {AbsentRest, WellFormedRest, IllTypedRest, MixedRest, OversizeRest}

ReplyObject(rest, rec, opt, cx) ==
    [primary_bottleneck |-> rest.primary_bottleneck, pain_points |-> rest.pain_points,
     recommended_modules |-> rec, optional_modules |-> opt,
     summary |-> rest.summary, opportunities |-> rest.opportunities,
     limitations |-> rest.limitations, data_needed |-> rest.data_needed,
     extra_options |-> rest.extra_options, complexity_assessment |-> cx]

\* the texts generate_content can return: a text without a JSON object, or a text
\* whose outermost braces hold a JSON object
Replies ==
    {[kind |-> "prose", parsed |-> EmptyObject]}
    \cup {[kind |-> "json", parsed |-> ReplyObject(rest, rec, opt, cx)] :
            rest \in RestReplies, rec \in RecommendedReplies, opt \in OptionalReplies,
            cx \in ComplexityReplies}

NoDiagnosis == [raised |-> FALSE, pending |-> TRUE]
NoOutput == [raised |-> FALSE, pending |-> TRUE]
NoQuote == [op |-> "none"]
NoLead == [state |-> "none"]

\* the values of the variables an execution does not use
NoClient == [pc |-> "none"]
NoRoadmap == [done |-> FALSE, modules |-> <<>>, implementation_eta |-> NONE, phases |-> <<>>]
NoTokens == [pc |-> "none"]
NoProject == [pc |-> "none"]
NoLogin == [pc |-> "none"]

---------------------------------------------------------------------------
(* run_analysis as a state machine *)

Idle ==
    /\ pc = "start"
    /\ friction_points_guess = <<>>
    /\ scored = <<>>
    /\ modules_guess = <<>>
    /\ optional_modules_guess = <<>>
    /\ fallback_result = NoDiagnosis
    /\ attempt = 0
    /\ requests = 0
    /\ reply = NoReply
    /\ diagnosis = NoDiagnosis
    /\ output = NoOutput
    /\ lead = NoLead
    /\ client = NoClient
    /\ roadmap = NoRoadmap
    /\ tokens = NoTokens
    /\ project = NoProject
    /\ login = NoLogin

Init ==
    /\ payload \in Payloads
    /\ apiKey \in KeyValues
    /\ quote = NoQuote
    /\ Idle

\* run_analysis lines 351-352: _pick_friction_points and _score_modules
Heuristics ==
    /\ pc = "start"
    /\ \E result \in {_score_modules(payload)} :
           /\ scored' = result.scored
           /\ modules_guess' = result.selected
           /\ optional_modules_guess' = result.optional
    /\ friction_points_guess' = _pick_friction_points(payload)
    /\ pc' = "diagnose"
    /\ UNCHANGED <<payload, apiKey, fallback_result, attempt, requests, reply, diagnosis,
                   output, quote, lead, client,
                   roadmap, tokens, project, login>>

\* consultant_diagnosis lines 208-232: the fallback is computed first, and without a
\* credential no call is made
SkipModel ==
    /\ pc = "diagnose"
    /\ GEMINI_API_KEY(apiKey) = "" \/ CatalogNames = {}
    /\ fallback_result' = FallbackResult(payload, friction_points_guess, modules_guess,
                                         optional_modules_guess)
    /\ pc' = "merge"
    /\ UNCHANGED <<payload, apiKey, friction_points_guess, scored, modules_guess,
                   optional_modules_guess, attempt, requests, reply, diagnosis, output,
                   quote, lead, client,
                   roadmap, tokens, project, login>>

\* consultant_diagnosis lines 208-304 and generate_content up to its loop
CallModel ==
    /\ pc = "diagnose"
    /\ ~(GEMINI_API_KEY(apiKey) = "" \/ CatalogNames = {})
    /\ fallback_result' = FallbackResult(payload, friction_points_guess, modules_guess,
                                         optional_modules_guess)
    /\ IF GEMINI_API_KEY(apiKey) = ""
       THEN pc' = "merge" /\ attempt' = attempt
       ELSE pc' = "call" /\ attempt' = 1
    /\ UNCHANGED <<payload, apiKey, friction_points_guess, scored, modules_guess,
                   optional_modules_guess, requests, reply, diagnosis, output, quote, lead, client,
                   roadmap, tokens, project, login>>

\* one iteration of the loop of generate_content that ends in "continue" or in an
\* empty text: network error, 404, model not found or unsupported, invalid JSON
AttemptSkipped ==
    /\ pc = "call"
    /\ requests' = requests + 1
    /\ \E last \in BOOLEAN :
        IF last \/ attempt >= MaxCandidates
        THEN /\ attempt' = 0
             /\ reply' = NoReply
             /\ pc' = "merge"
        ELSE /\ attempt' = attempt + 1
             /\ UNCHANGED <<reply, pc>>
    /\ UNCHANGED <<payload, apiKey, friction_points_guess, scored, modules_guess,
                   optional_modules_guess, fallback_result, diagnosis, output, quote, lead, client,
                   roadmap, tokens, project, login>>

\* one iteration that ends generate_content with another HTTP error
AttemptRejected ==
    /\ pc = "call"
    /\ requests' = requests + 1
    /\ attempt' = 0
    /\ reply' = NoReply
    /\ pc' = "merge"
    /\ UNCHANGED <<payload, apiKey, friction_points_guess, scored, modules_guess,
                   optional_modules_guess, fallback_result, diagnosis, output, quote, lead, client,
                   roadmap, tokens, project, login>>

\* one iteration that returns a non-empty text
AttemptAnswered(texts) ==
    /\ pc = "call"
    /\ requests' = requests + 1
    /\ attempt' = 0
    /\ \E r \in texts : reply' = r
    /\ pc' = "merge"
    /\ UNCHANGED <<payload, apiKey, friction_points_guess, scored, modules_guess,
                   optional_modules_guess, fallback_result, diagnosis, output, quote, lead, client,
                   roadmap, tokens, project, login>>

\* consultant_diagnosis returns (lines 232, 306 or 352) and run_analysis runs to its
\* end (lines 413-492)
Complete ==
    /\ pc = "merge"
    /\ \E diag \in {consultant_diagnosis(apiKey, fallback_result, modules_guess, reply)} :
           /\ diagnosis' = diag
           /\ output' = AnalysisOutput(payload, diag, modules_guess,
                                       optional_modules_guess, friction_points_guess)
    /\ pc' = "done"
    /\ UNCHANGED <<payload, apiKey, friction_points_guess, scored, modules_guess,
                   optional_modules_guess, fallback_result, attempt, requests, reply,
                   quote, lead, client,
                   roadmap, tokens, project, login>>

Next ==
    \/ Heuristics
    \/ SkipModel
    \/ CallModel
    \/ AttemptSkipped
    \/ AttemptRejected
    \/ AttemptAnswered(Replies)
    \/ Complete

Spec == Init /\ [][Next]_vars

---------------------------------------------------------------------------
(* _score_modules alone, over a wider set of intakes *)

ScoreBottlenecks ==
    {"Copiamos datos a Excel",
     "citas banco facturacion reporte kpi",
     "Se pierden pedidos, inventario   viejo",
     "Todo es muy lento",
     "whatsapp ventas leads cotizacion seguimiento chatbot web faq soporte shopify inventario stock pedido erp facturacion comprobante correo sat"}

ScoreProcesses == {"", "Vendemos en Shopify", "Tienda  Online con stock"}

ScoreSystems == {"", "soporte ticket crm datos", "ERP y CRM"}

ScoreGoals == {"", "onboarding rh", "onboarding rh correo email"}

ScoreSelections ==
    {<<>>, <<"inventarios_datos">>, <<"whatsapp_ventas", "documentos_inteligentes">>,
     <<"dashboards_reportes">>,
     <<"whatsapp_ventas", "inventarios_datos", "dashboards_reportes",
       "eficiencia_administrativa", "documentos_inteligentes", "conciliacion_automatica">>}

ScorePayloads ==
    {[BasePayload EXCEPT !.bottlenecks = b, !.processes = pr, !.systems = sy,
                         !.goals = g, !.selected_modules = sel] :
        b \in ScoreBottlenecks, pr \in ScoreProcesses, sy \in ScoreSystems,
        g \in ScoreGoals, sel \in ScoreSelections}

InitScore ==
    /\ payload \in ScorePayloads
    /\ apiKey = ""
    /\ quote = NoQuote
    /\ Idle

NextScore == Heuristics

SpecScore == InitScore /\ [][NextScore]_vars

---------------------------------------------------------------------------
(* The pricing functions alone *)

MaxTeamSize == 11
MaxModules == 4
MaxPriceSteps == 30
MaxSavingsSteps == 30

PricingPayloads ==
    {[BasePayload EXCEPT !.team_size = ts, !.employee_band = band,
                         !.transaction_volume = vol, !.tooling_level = tool] :
        ts \in (1..MaxTeamSize) \cup {20, 21}, band \in {"", "6-20", "21-100+"},
        vol \in {"", "bajo", "medio", " ALTO "},
        tool \in {"", "excel", " Solo_WhatsApp ", "shopify", "erp_complejo"}}

PainTexts == {"", "Agenda de citas", "Ventas y CRM", "Scraping masivo",
              "Agenda personal con ERP"}

\* the first n priority keys, in the order of the intake form
ModuleList(n) ==
    SubSeq(<<"whatsapp_ventas", "inventarios_datos", "dashboards_reportes",
             "eficiencia_administrativa", "documentos_inteligentes",
             "conciliacion_automatica">>, 1, Min(n, 6))
    \o [i \in 1..Max(0, n - 6) |-> "whatsapp_ventas"]

ComplexityLevels == {NONE, "low", "medium", "high"}

NoGuard == [final_price |-> 0, adjusted |-> FALSE, max_for_3x |-> Amount(0, 0, 3 * RoiDen)]
NoTier == [tier |-> "", min_price_mxn |-> 0, max_price_mxn |-> 0, reason |-> ""]

ModuleLists ==
    {ModuleList(n) : n \in 0..MaxModules} \cup {<<"whatsapp_ventas", "whatsapp_ventas">>}

PriceQuotes ==
    {[op |-> "price", done |-> FALSE, pain_text |-> t, selected |-> sel,
      complexity |-> c, price_arg |-> 0, savings |-> Amount(0, 0, RoiDen),
      tier |-> NoTier, price |-> 0, guard |-> NoGuard, factor |-> 0] :
        t \in PainTexts, sel \in ModuleLists, c \in ComplexityLevels}

GuardQuotes ==
    {[op |-> "guard", done |-> FALSE, pain_text |-> "", selected |-> <<>>,
      complexity |-> NONE, price_arg |-> 250 * k - 250,
      savings |-> Amount(750 * j - 750, f, RoiDen),
      tier |-> NoTier, price |-> 0, guard |-> NoGuard, factor |-> 0] :
        k \in 0..MaxPriceSteps, j \in 0..MaxSavingsSteps, f \in {0, 1}}

RiskTexts == {"", "Ventas lentas", "Perdemos contratos en carpetas",
              "Conciliacion del BANCO", "Facturas y contratos en PDF"}

RiskSelections ==
    {<<>>, <<"whatsapp_ventas">>, <<"eficiencia_administrativa">>,
     <<"conciliacion_automatica">>, <<"inventarios_datos", "whatsapp_ventas">>,
     <<"inventarios_datos", "documentos_inteligentes">>}

RiskQuotes ==
    {[op |-> "risk", done |-> FALSE, pain_text |-> t, selected |-> sel,
      complexity |-> NONE, price_arg |-> 0, savings |-> Amount(0, 0, RoiDen),
      tier |-> NoTier, price |-> 0, guard |-> NoGuard, factor |-> 0] :
        t \in RiskTexts, sel \in RiskSelections}

\* intakes that reach every tier
SetupPayloads ==
    {[BasePayload EXCEPT !.team_size = ts, !.transaction_volume = vol,
                         !.tooling_level = tool] :
        ts \in {1, 3, 8, 30}, vol \in {"", "medio", "alto"},
        tool \in {"", "shopify", "erp_complejo"}}

\* annual savings from nothing to well above three times the highest price
SetupSavings ==
    {Amount(w, f, RoiDen) : w \in {0, 2999, 6000, 7400, 9000, 24000, 36000, 74000,
                                   135000, 180000, 400000}, f \in {0, 1}}

SetupQuotes ==
    {[op |-> "setup", done |-> FALSE, pain_text |-> t, selected |-> ModuleList(n),
      complexity |-> c, price_arg |-> 0, savings |-> sv,
      tier |-> NoTier, price |-> 0, guard |-> NoGuard, factor |-> 0] :
        t \in {"", "Agenda de citas"}, n \in {0, 2, MaxModules}, c \in ComplexityLevels,
        sv \in SetupSavings}

InitPricing ==
    /\ \/ payload \in PricingPayloads /\ quote \in PriceQuotes
       \/ payload = BasePayload /\ quote \in GuardQuotes
       \/ payload = BasePayload /\ quote \in RiskQuotes
       \/ payload \in SetupPayloads /\ quote \in SetupQuotes
    /\ apiKey = ""
    /\ Idle

\* decide_service_tier followed by suggest_setup_price on its decision
SuggestPrice ==
    /\ quote.op = "price" /\ ~quote.done
    /\ \E tier \in {decide_service_tier(payload, quote.pain_text, quote.selected,
                                        quote.complexity)} :
           quote' = [quote EXCEPT !.done = TRUE, !.tier = tier,
                        !.price = suggest_setup_price(tier, quote.selected,
                                                      payload.tooling_level,
                                                      payload.transaction_volume)]
    /\ UNCHANGED <<payload, apiKey, pc, friction_points_guess, scored, modules_guess,
                   optional_modules_guess, fallback_result, attempt, requests, reply,
                   diagnosis, output, lead, client, roadmap, tokens, project, login>>

\* enforce_irresistible_roi on a price and an annual saving
EnforceRoi ==
    /\ quote.op = "guard" /\ ~quote.done
    /\ quote' = [quote EXCEPT !.done = TRUE,
                    !.guard = enforce_irresistible_roi(quote.price_arg, quote.savings)]
    /\ UNCHANGED <<payload, apiKey, pc, friction_points_guess, scored, modules_guess,
                   optional_modules_guess, fallback_result, attempt, requests, reply,
                   diagnosis, output, lead, client, roadmap, tokens, project, login>>

\* _error_risk_factor on a pain text and the selected priorities, as roi_breakdown calls it
ErrorRisk ==
    /\ quote.op = "risk" /\ ~quote.done
    /\ quote' = [quote EXCEPT !.done = TRUE,
                    !.factor = _error_risk_factor(quote.pain_text, quote.selected)]
    /\ UNCHANGED <<payload, apiKey, pc, friction_points_guess, scored, modules_guess,
                   optional_modules_guess, fallback_result, attempt, requests, reply,
                   diagnosis, output, lead, client, roadmap, tokens, project, login>>

\* run_analysis lines 417-435: the tier, the price of the tier and the guarded setup fee
QuoteSetup ==
    /\ quote.op = "setup" /\ ~quote.done
    /\ \E tier \in {decide_service_tier(payload, quote.pain_text, quote.selected,
                                        quote.complexity)} :
         \E base_setup \in {suggest_setup_price(tier, quote.selected, payload.tooling_level,
                                                payload.transaction_volume)} :
           quote' = [quote EXCEPT !.done = TRUE, !.tier = tier, !.price = base_setup,
                        !.guard = enforce_irresistible_roi(base_setup, quote.savings)]
    /\ UNCHANGED <<payload, apiKey, pc, friction_points_guess, scored, modules_guess,
                   optional_modules_guess, fallback_result, attempt, requests, reply,
                   diagnosis, output, lead, client, roadmap, tokens, project, login>>

NextPricing == SuggestPrice \/ EnforceRoi \/ ErrorRisk \/ QuoteSetup

SpecPricing == InitPricing /\ [][NextPricing]_vars

---------------------------------------------------------------------------
(* run_analysis followed by save_lead and fetch_lead *)

\* a reply whose texts hold quotes, backslashes, a line break and a tab
QuotedRest ==
    [primary_bottleneck |-> JStr("Captura \"manual\" en C:\\ventas"),
     pain_points |-> JList(<<JStr("Dicen \"urgente\" a todo"), JStr("uno\ndos"),
                             JStr("carpeta C:\\"), JStr("\\\"")>>),
     summary |-> JStr("Cierre\ttardio: \\n no es salto"),
     opportunities |-> JList(<<JStr("Plantillas \"listas\": ahorra jornadas")>>),
     limitations |-> JList(<<JStr("\\")>>),
     data_needed |-> JList(<<JStr("\"\""), JStr("a\\\\b")>>),
     extra_options |-> JAbsent]

StorePayloads ==
    {BasePayload,
     [BasePayload EXCEPT !.manual_hours_per_week = MaxHours],
     [BasePayload EXCEPT !.team_size = 26, !.business_focus = "Tienda \"La Esquina\""],
     [BasePayload EXCEPT !.bottlenecks = "WhatsApp soporte inventario facturas reportes banco lento",
                         !.selected_modules = <<"inventarios_datos", "whatsapp_ventas">>,
                         !.manual_hours_per_week = MaxHours]}

StoreReplies ==
    {[kind |-> "prose", parsed |-> EmptyObject]}
    \cup {[kind |-> "json", parsed |-> ReplyObject(rest, rec, JAbsent, cx)] :
            rest \in {AbsentRest, WellFormedRest, QuotedRest, OversizeRest},
            rec \in RecommendedReplies, cx \in {JAbsent, JObj("high", 2)}}

InitStore ==
    /\ payload \in StorePayloads
    /\ apiKey \in {"", "AIza-key"}
    /\ quote = NoQuote
    /\ Idle

\* save_lead line 267: the diagnosis_json column of the new row
save_lead ==
    /\ pc = "done" /\ ~output.raised
    /\ lead.state = "none"
    /\ lead' = [state |-> "saved",
                analysis |-> AnalysisObject(output),
                diagnosis_json |-> model_dump_json(AnalysisObject(output))]
    /\ UNCHANGED <<payload, apiKey, pc, friction_points_guess, scored, modules_guess,
                   optional_modules_guess, fallback_result, attempt, requests, reply,
                   diagnosis, output, quote, client,
                   roadmap, tokens, project, login>>

\* fetch_lead line 350: the AnalysisOutput rebuilt from the row
fetch_lead ==
    /\ lead.state = "saved"
    /\ lead' = [state |-> "fetched",
                analysis |-> lead.analysis,
                diagnosis_json |-> lead.diagnosis_json,
                fetched |-> AnalysisFromJson(lead.diagnosis_json)]
    /\ UNCHANGED <<payload, apiKey, pc, friction_points_guess, scored, modules_guess,
                   optional_modules_guess, fallback_result, attempt, requests, reply,
                   diagnosis, output, quote, client,
                   roadmap, tokens, project, login>>

NextStore ==
    \/ Heuristics
    \/ SkipModel
    \/ CallModel
    \/ AttemptSkipped
    \/ AttemptRejected
    \/ AttemptAnswered(StoreReplies)
    \/ Complete
    \/ save_lead
    \/ fetch_lead

SpecStore == InitStore /\ [][NextStore]_vars

---------------------------------------------------------------------------
(* gemini_client.py: generate_content, one HTTP request at a time *)

\* the engine's variables while another part of the application runs
AtRest ==
    /\ payload = BasePayload
    /\ quote = NoQuote
    /\ pc = "start"
    /\ friction_points_guess = <<>>
    /\ scored = <<>>
    /\ modules_guess = <<>>
    /\ optional_modules_guess = <<>>
    /\ fallback_result = NoDiagnosis
    /\ attempt = 0
    /\ requests = 0
    /\ reply = NoReply
    /\ diagnosis = NoDiagnosis
    /\ output = NoOutput
    /\ lead = NoLead

DEFAULT_MODEL_CANDIDATES ==
    <<"gemini-2.0-flash", "gemini-2.0-flash-lite", "gemini-1.5-flash", "gemini-1.5-pro">>

_normalize_model_name(name) ==
    LET value == Strip(name)
    IN  IF Len(value) >= 7 /\ SubSeq(value, 1, 7) = "models/"
        THEN SubSeq(value, 8, Len(value))
        ELSE value

\* the names normalised, with the blank ones dropped, and nothing else removed
NormalizeOnly(items) ==
    LET cleaned == [i \in 1..Len(items) |-> _normalize_model_name(items[i])]
    IN  SelectSeq(cleaned, LAMBDA name : name # "")

_dedupe(items) ==
    LET cleaned == [i \in 1..Len(items) |-> _normalize_model_name(items[i])]
        unique[i \in 0..Len(items)] ==
            IF i = 0 THEN <<>>
            ELSE IF cleaned[i] = "" \/ cleaned[i] \in Range(unique[i - 1])
                 THEN unique[i - 1]
                 ELSE Append(unique[i - 1], cleaned[i])
    IN  unique[Len(items)]

\* _cached_supported_models: listing is the answer of GET /models, NONE when the
\* request or its decoding failed
_cached_supported_models(api_key, listing) ==
    IF api_key = "" \/ listing = NONE THEN <<>>
    ELSE LET usable == SelectSeq(listing, LAMBDA item : "generateContent" \in item.methods)
         IN  _dedupe([i \in 1..Len(usable) |-> usable[i].name])

resolve_model_candidates(api_key, listing, preferred_model, configured_model) ==
    LET static_candidates ==
            _dedupe(<<IF preferred_model = NONE THEN "" ELSE preferred_model,
                      Strip(configured_model)>> \o DEFAULT_MODEL_CANDIDATES)
        available == _cached_supported_models(api_key, listing)
        prioritized == SelectSeq(static_candidates, LAMBDA m : m \in Range(available))
        remaining == SelectSeq(available, LAMBDA m : m \notin Range(prioritized))
    IN  IF available = <<>> THEN static_candidates ELSE prioritized \o remaining

\* _response_error_message(response) or f"http_{status_code}"
ErrorMessage(response) ==
    IF Strip(response.message) # "" THEN Strip(response.message)
    ELSE "http_" \o IntText(response.status_code)

\* the branch one iteration of the loop takes on what the request produced
Branch(response) ==
    IF response.raised THEN "network_error"
    ELSE IF response.status_code = 404 THEN "model_not_found"
    ELSE IF response.status_code >= 400
         THEN LET message_lower == Lower(ErrorMessage(response))
              IN  IF Contains("not found", message_lower) /\ Contains("model", message_lower)
                  THEN "model_not_found"
                  ELSE IF Contains("unsupported for generatecontent", message_lower)
                       THEN "model_unsupported"
                       ELSE "http_error"
    ELSE IF ~response.json THEN "invalid_json"
    ELSE IF Strip(response.text) # "" THEN "text"
    ELSE "empty_response"

Response(raised, status_code, message, json, text) ==
    [raised |-> raised, status_code |-> status_code, message |-> message,
     json |-> json, text |-> text]

\* what a generateContent request can produce
Responses ==
    {Response(TRUE, 0, "timed out", FALSE, ""),
     Response(FALSE, 404, "", FALSE, ""),
     Response(FALSE, 400, "Model gemini-x was Not Found for this API version", FALSE, ""),
     Response(FALSE, 400, "models/gemini-x is Unsupported for generateContent", FALSE, ""),
     Response(FALSE, 429, "Quota exceeded", FALSE, ""),
     Response(FALSE, 500, "", FALSE, ""),
     Response(FALSE, 200, "", FALSE, "<html>"),
     Response(FALSE, 200, "", TRUE, "  "),
     Response(FALSE, 200, "", TRUE, " {\"summary\": \"ok\"} ")}

PreferredModels == {NONE, "models/gemini-1.5-flash", "gemini-exp"}

ConfiguredModels == {"", " gemini-2.0-flash ", "gemini-pro-custom"}

Listings ==
    {NONE,
     <<[name |-> "models/gemini-1.5-pro", methods |-> {"generateContent"}],
       [name |-> "models/embedding-001", methods |-> {"embedContent"}],
       [name |-> "models/gemini-2.5-flash", methods |-> {"generateContent", "countTokens"}],
       [name |-> "gemini-1.5-pro", methods |-> {"generateContent"}]>>,
     <<[name |-> "models/embedding-001", methods |-> {"embedContent"}]>>}

InitClient ==
    /\ AtRest
    /\ apiKey \in {"  ", "AIza-key"}
    /\ \E pm \in PreferredModels, cm \in ConfiguredModels, ls \in Listings :
           client = [pc |-> "start", preferred_model |-> pm, configured_model |-> cm,
                     listing |-> ls, candidates |-> <<>>, sent |-> <<>>, branches |-> <<>>,
                     last_error |-> "unknown_error",
                     result |-> [text |-> NONE, model |-> NONE, error |-> NONE]]
    /\ roadmap = NoRoadmap
    /\ tokens = NoTokens
    /\ project = NoProject
    /\ login = NoLogin

\* generate_content lines 115-129: the credential and the candidate list
ResolveCandidates ==
    /\ client.pc = "start"
    /\ LET api_key == GEMINI_API_KEY(apiKey)
           candidates == resolve_model_candidates(api_key, client.listing,
                                                  client.preferred_model,
                                                  client.configured_model)
       IN  IF api_key = ""
           THEN client' = [client EXCEPT !.pc = "returned",
                              !.result = [text |-> NONE, model |-> NONE,
                                          error |-> "missing_api_key"]]
           ELSE IF candidates = <<>>
                THEN client' = [client EXCEPT !.pc = "returned",
                                   !.result = [text |-> NONE, model |-> NONE,
                                               error |-> "no_candidate_models"]]
                ELSE client' = [client EXCEPT !.pc = "loop", !.candidates = candidates]
    /\ UNCHANGED <<analysisVars, roadmap, tokens, project, login>>

\* the candidate of the next iteration of the loop
NextModel == client.candidates[Len(client.sent) + 1]

\* one iteration whose request produced `response` and took the branch `branch`,
\* ending in "continue" (or in the end of the loop body) with last_error set
Continue(response, branch, error) ==
    /\ client.pc = "loop"
    /\ Len(client.sent) < Len(client.candidates)
    /\ Branch(response) = branch
    /\ client' = [client EXCEPT !.sent = Append(@, NextModel),
                                !.branches = Append(@, branch),
                                !.last_error = error \o NextModel]
    /\ UNCHANGED <<analysisVars, roadmap, tokens, project, login>>

\* lines 133-149: httpx.post raised
NetworkError ==
    \E response \in Responses :
        /\ response.raised
        /\ client.pc = "loop"
        /\ Len(client.sent) < Len(client.candidates)
        /\ client' = [client EXCEPT !.sent = Append(@, NextModel),
                                    !.branches = Append(@, Branch(response)),
                                    !.last_error = "network_error: " \o response.message]
        /\ UNCHANGED <<analysisVars, roadmap, tokens, project, login>>

\* lines 151-153 and 158-160
ModelNotFound ==
    \E response \in Responses : Continue(response, "model_not_found", "model_not_found: ")

\* lines 161-163
ModelUnsupported ==
    \E response \in Responses :
        Continue(response, "model_unsupported", "model_unsupported: ")

\* line 164: another HTTP error ends the call
HttpError ==
    \E response \in Responses :
        /\ client.pc = "loop"
        /\ Len(client.sent) < Len(client.candidates)
        /\ Branch(response) = "http_error"
        /\ client' = [client EXCEPT !.pc = "returned",
                                    !.sent = Append(@, NextModel),
                                    !.branches = Append(@, "http_error"),
                                    !.result = [text |-> NONE, model |-> NextModel,
                                                error |-> ErrorMessage(response)]]
        /\ UNCHANGED <<analysisVars, roadmap, tokens, project, login>>

\* lines 166-170
InvalidJson ==
    \E response \in Responses : Continue(response, "invalid_json", "invalid_json: ")

\* lines 172-175 with an empty text
EmptyResponse ==
    \E response \in Responses : Continue(response, "empty_response", "empty_response: ")

\* lines 172-174: the first non-empty text is returned with its model
TextReturned ==
    \E response \in Responses :
        /\ client.pc = "loop"
        /\ Len(client.sent) < Len(client.candidates)
        /\ Branch(response) = "text"
        /\ client' = [client EXCEPT !.pc = "returned",
                                    !.sent = Append(@, NextModel),
                                    !.branches = Append(@, "text"),
                                    !.result = [text |-> Strip(response.text),
                                                model |-> NextModel, error |-> NONE]]
        /\ UNCHANGED <<analysisVars, roadmap, tokens, project, login>>

\* line 177: the loop ran out of candidates
Exhausted ==
    /\ client.pc = "loop"
    /\ Len(client.sent) = Len(client.candidates)
    /\ client' = [client EXCEPT !.pc = "returned",
                                !.result = [text |-> NONE, model |-> NONE,
                                            error |-> client.last_error]]
    /\ UNCHANGED <<analysisVars, roadmap, tokens, project, login>>

NextClient ==
    \/ ResolveCandidates
    \/ NetworkError
    \/ ModelNotFound
    \/ ModelUnsupported
    \/ HttpError
    \/ InvalidJson
    \/ EmptyResponse
    \/ TextReturned
    \/ Exhausted

SpecClient == InitClient /\ [][NextClient]_vars

---------------------------------------------------------------------------
(* _build_roadmap alone, with and without an ETA hint *)

MaxRoadmapModules == 5

\* the module lists: up to MaxRoadmapModules modules of the catalog, in its order
RoadmapModules ==
    {SelectSeq(catalog, LAMBDA m : m.name \in chosen) :
        chosen \in {c \in SUBSET CatalogNames : Cardinality(c) <= MaxRoadmapModules}}

EtaHints == {NONE, "", "48 Horas", "3 dias habiles", "Mismo DIA", "2 semanas"}

InitRoadmap ==
    /\ AtRest
    /\ apiKey = ""
    /\ client = NoClient
    /\ \E modules \in RoadmapModules, eta \in EtaHints :
           roadmap = [done |-> FALSE, modules |-> modules, implementation_eta |-> eta,
                      phases |-> <<>>]
    /\ tokens = NoTokens
    /\ project = NoProject
    /\ login = NoLogin

BuildRoadmap ==
    /\ ~roadmap.done
    /\ roadmap' = [roadmap EXCEPT !.done = TRUE,
                      !.phases = _build_roadmap(roadmap.modules, roadmap.implementation_eta)]
    /\ UNCHANGED <<analysisVars, client, tokens, project, login>>

NextRoadmap == BuildRoadmap

SpecRoadmap == InitRoadmap /\ [][NextRoadmap]_vars

---------------------------------------------------------------------------
(* storage.py: the oauth_tokens table under concurrent save_oauth_token calls *)

MaxSaves == 3

Savers == 1..MaxSaves

TokenKeys == {<<1, "meta">>, <<1, "google">>}

AccessTokens == {"  ", "tok-a", " tok-b "}

NoCall == [pc |-> "idle", lead_id |-> 0, provider |-> "", access_token |-> ""]

\* a call that is over: "returned" (blank token), "saved" or "raised"
Ended(how) == [pc |-> how, lead_id |-> 0, provider |-> "", access_token |-> ""]

NoTable == [rows |-> <<>>, seq |-> 0]

\* the rows of a table that belong to (lead_id, provider)
RowsOf(table, lead_id, provider) ==
    SelectSeq(table.rows, LAMBDA row : row.lead_id = lead_id /\ row.provider = provider)

\* DELETE FROM oauth_tokens WHERE lead_id = ? AND provider = ?
DeleteTokens(table, lead_id, provider) ==
    [table EXCEPT !.rows = SelectSeq(table.rows,
                               LAMBDA row : ~(row.lead_id = lead_id /\ row.provider = provider))]

\* INSERT INTO oauth_tokens (...): id is AUTOINCREMENT, one above every id ever used
InsertToken(table, lead_id, provider, access_token) ==
    [rows |-> Append(table.rows, [id |-> table.seq + 1, lead_id |-> lead_id,
                                  provider |-> provider, access_token |-> access_token]),
     seq |-> table.seq + 1]

\* fetch_oauth_token: the access token of the row with the highest id, None without row
fetch_oauth_token(table, lead_id, provider) ==
    LET found == RowsOf(table, lead_id, provider)
    IN  IF found = <<>> THEN NONE
        ELSE LET last == CHOOSE i \in 1..Len(found) :
                             \A j \in 1..Len(found) : found[j].id <= found[i].id
             IN  found[last].access_token

\* a connection that commits every statement as soon as it has run
WrittenThrough(saver, result, committed) ==
    [committed |-> result, lock |-> 0, work |-> result]

\* lines 584-611: the statements of one connection run in one transaction that the
\* connection opens before its DELETE and ends with conn.commit(); until then the
\* connection holds the write lock and its changes are its own
WithinTransaction(saver, result, committed) ==
    [committed |-> committed, lock |-> saver, work |-> result]

InitTokens ==
    /\ AtRest
    /\ apiKey = ""
    /\ client = NoClient
    /\ roadmap = NoRoadmap
    /\ tokens = [pc |-> "run", table |-> NoTable, lock |-> 0,
                 work |-> [s \in Savers |-> NoTable],
                 calls |-> [s \in Savers |-> NoCall],
                 last_saved |-> [key \in TokenKeys |-> NONE],
                 fetched |-> [state |-> "none"]]
    /\ project = NoProject
    /\ login = NoLogin

\* save_oauth_token lines 565-582: a blank access_token returns at once; encrypting
\* raises when the encryption key is not usable.  The calls are numbered in the
\* order in which they start.
StartSave(s) ==
    /\ tokens.pc = "run"
    /\ tokens.calls[s].pc = "idle"
    /\ \A earlier \in 1..(s - 1) : tokens.calls[earlier].pc # "idle"
    /\ \E key \in TokenKeys, access_token \in AccessTokens, encrypted \in BOOLEAN :
           tokens' = [tokens EXCEPT !.calls[s] =
                        IF Strip(access_token) = "" THEN Ended("returned")
                        ELSE IF ~encrypted THEN Ended("raised")
                        ELSE [pc |-> "connected", lead_id |-> key[1], provider |-> key[2],
                              access_token |-> Strip(access_token)]]
    /\ UNCHANGED <<analysisVars, client, roadmap, project, login>>

\* the table a statement of the connection of `s` works on
TableOf(s) == IF tokens.lock = s THEN tokens.work[s] ELSE tokens.table

\* one statement of the connection of `s`, leaving `result`
Statement(s, result, pc_after) ==
    /\ tokens.lock \in {0, s}
    /\ \E after \in {WithinTransaction(s, result, tokens.table)} :
           tokens' = [tokens EXCEPT !.table = after.committed, !.lock = after.lock,
                                    !.work[s] = after.work, !.calls[s].pc = pc_after]

\* lines 586-589
DeleteStatement(s) ==
    /\ tokens.pc = "run"
    /\ tokens.calls[s].pc = "connected"
    /\ Statement(s, DeleteTokens(TableOf(s), tokens.calls[s].lead_id,
                                 tokens.calls[s].provider), "deleted")
    /\ UNCHANGED <<analysisVars, client, roadmap, project, login>>

\* lines 590-610
InsertStatement(s) ==
    /\ tokens.pc = "run"
    /\ tokens.calls[s].pc = "deleted"
    /\ Statement(s, InsertToken(TableOf(s), tokens.calls[s].lead_id,
                                tokens.calls[s].provider, tokens.calls[s].access_token),
                 "inserted")
    /\ UNCHANGED <<analysisVars, client, roadmap, project, login>>

\* line 611: conn.commit() publishes the changes and releases the lock
CommitSave(s) ==
    /\ tokens.pc = "run"
    /\ tokens.calls[s].pc = "inserted"
    /\ tokens' = [tokens EXCEPT
                    !.table = TableOf(s),
                    !.lock = IF tokens.lock = s THEN 0 ELSE @,
                    !.work[s] = NoTable,
                    !.calls[s] = Ended("saved"),
                    !.last_saved[<<tokens.calls[s].lead_id, tokens.calls[s].provider>>] =
                        tokens.calls[s].access_token]
    /\ UNCHANGED <<analysisVars, client, roadmap, project, login>>

\* lines 612-613: a statement or the commit raised (the database stayed locked by
\* another connection, or the write failed); conn.close() drops the open transaction
RaiseInSave(s) ==
    /\ tokens.pc = "run"
    /\ tokens.calls[s].pc \in {"connected", "deleted", "inserted"}
    /\ tokens.calls[s].pc = "connected" => tokens.lock \notin {0, s}
    /\ tokens' = [tokens EXCEPT !.lock = IF tokens.lock = s THEN 0 ELSE @,
                                !.work[s] = NoTable,
                                !.calls[s] = Ended("raised")]
    /\ UNCHANGED <<analysisVars, client, roadmap, project, login>>

\* fetch_oauth_token on the committed table
FetchToken ==
    /\ tokens.pc = "run"
    /\ \E key \in TokenKeys :
           tokens' = [tokens EXCEPT !.fetched =
                        [state |-> "fetched", lead_id |-> key[1], provider |-> key[2],
                         access_token |-> fetch_oauth_token(tokens.table, key[1], key[2]),
                         last_saved |-> tokens.last_saved[key]]]
    /\ UNCHANGED <<analysisVars, client, roadmap, project, login>>

NextTokens ==
    \/ \E s \in Savers : StartSave(s)
    \/ \E s \in Savers : DeleteStatement(s)
    \/ \E s \in Savers : InsertStatement(s)
    \/ \E s \in Savers : CommitSave(s)
    \/ \E s \in Savers : RaiseInSave(s)
    \/ FetchToken

SpecTokens == InitTokens /\ [][NextTokens]_vars

---------------------------------------------------------------------------
(* main.py: one request of the /implement handler, from save_project on *)

\* N8N_WEBHOOK_URL as the environment gives it
WebhookUrls == {"", "  ", "https://n8n.example.com/webhook/lead"}

PaymentMethods == {"tarjeta", "transferencia"}

\* what `await client.post(...)` can end in: a response of any status, an
\* httpx.HTTPError (timeout, refused connection), or another exception (httpx.InvalidURL
\* for a malformed address, an error while the body is encoded)
PostOutcomes == {"response", "http_error", "other_error"}

InitProject ==
    /\ AtRest
    /\ apiKey = ""
    /\ client = NoClient
    /\ roadmap = NoRoadmap
    /\ tokens = NoTokens
    /\ \E contract_consent \in BOOLEAN, access_consent \in BOOLEAN,
          payment_method \in PaymentMethods, mp_checkout_enabled \in BOOLEAN,
          webhook_url \in WebhookUrls, wants_whatsapp \in BOOLEAN,
          wants_messenger \in BOOLEAN :
           project = [pc |-> "save",
                      contract_consent |-> contract_consent,
                      access_consent |-> access_consent,
                      payment_method |-> payment_method,
                      mp_checkout_enabled |-> mp_checkout_enabled,
                      N8N_WEBHOOK_URL |-> webhook_url,
                      wants_whatsapp |-> wants_whatsapp,
                      wants_messenger |-> wants_messenger,
                      status |-> NONE,
                      mp_checkout_token |-> FALSE,
                      posts |-> 0,
                      meta_validation |-> {},
                      provisioned |-> FALSE]
    /\ login = NoLogin

\* lines 1047-1049
Consent == project.contract_consent /\ project.access_consent

\* lines 1087-1096: the project row is inserted with its first status
SaveProject ==
    /\ project.pc = "save"
    /\ project' = [project EXCEPT !.pc = "checkout",
                      !.status = IF ~Consent THEN "pending_consent" ELSE "queued"]
    /\ UNCHANGED <<analysisVars, client, roadmap, tokens, login>>

\* lines 1097-1108: save_project raised ValueError; the form is shown again
SaveProjectFailed ==
    /\ project.pc = "save"
    /\ project' = [project EXCEPT !.pc = "responded"]
    /\ UNCHANGED <<analysisVars, client, roadmap, tokens, login>>

\* lines 1118-1123: the checkout token of a card payment
CheckoutToken ==
    /\ project.pc = "checkout"
    /\ project' = [project EXCEPT !.pc = "webhook",
                      !.mp_checkout_token =
                          Consent /\ project.payment_method = "tarjeta"
                                  /\ project.mp_checkout_enabled]
    /\ UNCHANGED <<analysisVars, client, roadmap, tokens, login>>

\* update_project_status(project_id, status)
update_project_status(row_status, status) == status

\* lines 1125-1147: the workflow webhook
PostWebhook ==
    /\ project.pc = "webhook"
    /\ Strip(project.N8N_WEBHOOK_URL) # "" /\ Consent
    /\ \E outcome \in PostOutcomes :
           project' =
               CASE outcome = "response" ->
                        [project EXCEPT !.pc = "meta", !.posts = @ + 1,
                            !.status = update_project_status(@, "sent_to_n8n")]
                 [] outcome = "http_error" ->
                        [project EXCEPT !.pc = "meta", !.posts = @ + 1,
                            !.status = update_project_status(@, "n8n_failed")]
                 [] outcome = "other_error" ->
                        [project EXCEPT !.pc = "raised", !.posts = @ + 1]
    /\ UNCHANGED <<analysisVars, client, roadmap, tokens, login>>

\* lines 1148-1149: consent without a configured webhook
NoWebhook ==
    /\ project.pc = "webhook"
    /\ ~(Strip(project.N8N_WEBHOOK_URL) # "" /\ Consent)
    /\ project' = [project EXCEPT !.pc = "meta",
                      !.status = IF Consent THEN update_project_status(@, "ready_no_webhook")
                                 ELSE @]
    /\ UNCHANGED <<analysisVars, client, roadmap, tokens, login>>

\* lines 1151-1172: Meta validation and workflow provisioning, then the response
ValidateAndProvision ==
    /\ project.pc = "meta"
    /\ project' =
           IF Consent /\ (project.wants_whatsapp \/ project.wants_messenger)
           THEN [project EXCEPT !.pc = "responded",
                    !.meta_validation =
                        (IF project.wants_whatsapp THEN {"whatsapp"} ELSE {})
                        \cup (IF project.wants_messenger THEN {"messenger"} ELSE {}),
                    !.provisioned = TRUE]
           ELSE [project EXCEPT !.pc = "responded"]
    /\ UNCHANGED <<analysisVars, client, roadmap, tokens, login>>

NextProject ==
    \/ SaveProject
    \/ SaveProjectFailed
    \/ CheckoutToken
    \/ PostWebhook
    \/ NoWebhook
    \/ ValidateAndProvision

SpecProject == InitProject /\ [][NextProject]_vars

---------------------------------------------------------------------------
(* main.py and storage.py: portal_login_post while other requests save leads *)

MaxLeadInserts == 2

\* a row of the leads table: password is the text password_hash was made from,
\* NONE for a lead without portal password
Lead(id, contact_email, password) ==
    [id |-> id, contact_email |-> contact_email, password |-> password]

LeadTables ==
    {<<Lead(1, "ana@x.mx", "secreto1")>>,
     <<Lead(1, "Ana@X.mx", "secreto1"), Lead(2, "luis@x.mx", "clave22")>>,
     <<Lead(1, "ana@x.mx", NONE)>>}

LoginEmails == {"", "ana@x.mx", " ANA@x.mx "}

LoginPasswords == {"", "secreto1", " secreto1 ", "otra"}

NewLeadEmails == {"ana@x.mx", "luis@x.mx"}

\* SELECT ... FROM leads WHERE lower(contact_email) = ? ORDER BY id DESC LIMIT 1,
\* with email.strip().lower() as the parameter: the rows fetchone() gets, one or none
LatestLeadByEmail(leads, email) ==
    LET found == SelectSeq(leads, LAMBDA row : Lower(row.contact_email) = Lower(Strip(email)))
    IN  IF found = <<>> THEN <<>>
        ELSE <<found[CHOOSE i \in 1..Len(found) :
                         \A j \in 1..Len(found) : found[j].id <= found[i].id]>>

\* fetch_lead_id_by_email: the id, 0 for None (the ids of the table start at 1)
fetch_lead_id_by_email(leads, email) ==
    LET row == LatestLeadByEmail(leads, email)
    IN  IF row = <<>> THEN 0 ELSE row[1].id

\* validate_portal_login: (ok, error), and the id of the row whose hash matched
validate_portal_login(leads, email, password) ==
    LET row == LatestLeadByEmail(leads, email)
    IN  IF email = "" THEN [ok |-> FALSE, error |-> "Ingresa tu correo.", row |-> 0]
        ELSE IF password = ""
             THEN [ok |-> FALSE, error |-> "Ingresa tu contrasena.", row |-> 0]
        ELSE IF row = <<>>
             THEN [ok |-> FALSE, error |-> "Correo no encontrado.", row |-> 0]
        ELSE IF row[1].password = NONE
             THEN [ok |-> FALSE, error |-> "Tu cuenta aun no tiene contrasena activada.",
                   row |-> 0]
        ELSE IF Strip(password) # row[1].password
             THEN [ok |-> FALSE, error |-> "Contrasena incorrecta.", row |-> 0]
        ELSE [ok |-> TRUE, error |-> NONE, row |-> row[1].id]

InitLogin ==
    /\ AtRest
    /\ apiKey = ""
    /\ client = NoClient
    /\ roadmap = NoRoadmap
    /\ tokens = NoTokens
    /\ project = NoProject
    /\ \E leads \in LeadTables, email \in LoginEmails, password \in LoginPasswords :
           login = [pc |-> "validate", leads |-> leads, email |-> email,
                    password |-> password, verified |-> 0, error |-> NONE,
                    portal_lead_id |-> 0, inserts |-> 0]

\* portal_login_post lines 1249-1258: the password check, on its own connection
ValidateLogin ==
    /\ login.pc = "validate"
    /\ \E checked \in {validate_portal_login(login.leads, login.email, login.password)} :
           login' = [login EXCEPT !.pc = IF checked.ok THEN "lookup" ELSE "responded",
                                  !.verified = checked.row,
                                  !.error = checked.error]
    /\ UNCHANGED <<analysisVars, client, roadmap, tokens, project>>

\* portal_login_post lines 1260-1272: the id lookup, on another connection, and
\* the session entry
LookupLead ==
    /\ login.pc = "lookup"
    /\ \E lead_id \in {fetch_lead_id_by_email(login.leads, login.email)} :
           login' = IF lead_id = 0
                    THEN [login EXCEPT !.pc = "responded",
                                       !.error = "No encontramos tu cuenta."]
                    ELSE [login EXCEPT !.pc = "responded", !.portal_lead_id = lead_id]
    /\ UNCHANGED <<analysisVars, client, roadmap, tokens, project>>

\* save_lead of another request: a new row with the next id, the contact email of
\* its intake and no portal password
InsertLead ==
    /\ login.pc \in {"validate", "lookup", "responded"}
    /\ login.inserts < MaxLeadInserts
    /\ \E contact_email \in NewLeadEmails :
           login' = [login EXCEPT
                        !.leads = Append(@, Lead(Len(@) + 1, contact_email, NONE)),
                        !.inserts = @ + 1]
    /\ UNCHANGED <<analysisVars, client, roadmap, tokens, project>>

NextLogin == ValidateLogin \/ LookupLead \/ InsertLead

SpecLogin == InitLogin /\ [][NextLogin]_vars

---------------------------------------------------------------------------
(* Properties of run_analysis and consultant_diagnosis *)

Returned == pc = "done" /\ ~output.raised

\* C1: every AnalysisOutput run_analysis returns has between 1 and 5 recommended
\* modules and between 0 and 4 optional modules, and no module name is in both
\* lists, whatever the model answered (no call, failed call, prose, any JSON).
C1_ModuleListsBounded ==
    Returned =>
        /\ Len(output.recommended_modules) \in 1..5
        /\ Len(output.optional_modules) \in 0..4
        /\ Range(output.recommended_modules) \cap Range(output.optional_modules) = {}

\* the model named more modules than either list may hold and both lists are full
C1_Witness ==
    /\ Returned
    /\ reply.kind = "json"
    /\ Len(reply.parsed.recommended_modules.items) > 5
    /\ Len(output.recommended_modules) = 5
    /\ Len(output.optional_modules) = 4

C3_FallbackUnchanged ==
    (pc = "done" /\ Strip(apiKey) # "" /\ reply.kind \in {"none", "prose"}) =>
        /\ ~diagnosis.raised
        /\ diagnosis.primary_bottleneck = fallback_result.primary_bottleneck
        /\ diagnosis.pain_points = fallback_result.pain_points
        /\ diagnosis.recommended_modules = fallback_result.recommended_modules
        /\ diagnosis.optional_modules = fallback_result.optional_modules
        /\ diagnosis.summary = fallback_result.summary
        /\ diagnosis.opportunities = fallback_result.opportunities
        /\ diagnosis.limitations = fallback_result.limitations
        /\ diagnosis.data_needed = fallback_result.data_needed

\* C4: whatever JSON types the reply holds (complexity_assessment a string, a list
\* or a number included), consultant_diagnosis never raises.
C4_NeverRaises ==
    pc = "done" => ~diagnosis.raised /\ ~output.raised

\* the level the model put in complexity_assessment, "" when there is none
ModelLevelText ==
    IF reply.kind = "json" /\ reply.parsed.complexity_assessment.t = "obj"
    THEN reply.parsed.complexity_assessment.s ELSE ""

TeamSizeLevel ==
    IF payload.team_size <= 5 THEN "Low"
    ELSE IF payload.team_size <= 25 THEN "Medium" ELSE "High"

LevelTitle(level) ==
    IF level = "low" THEN "Low" ELSE IF level = "medium" THEN "Medium" ELSE "High"

Fetched == lead.state = "fetched"

Diagnosed == pc = "done" /\ ~diagnosis.raised

\* C21: the recommended_modules consultant_diagnosis returns are catalog names, at
\* most 5, the optional_modules are catalog names outside the recommended ones, at
\* most 4, and no name outside the catalog reaches the AnalysisOutput.
C21_OnlyCatalogNamesSurvive ==
    Diagnosed =>
        /\ Range(diagnosis.recommended_modules) \subseteq CatalogNames
        /\ Len(diagnosis.recommended_modules) <= 5
        /\ Range(diagnosis.optional_modules)
              \subseteq CatalogNames \ Range(diagnosis.recommended_modules)
        /\ Len(diagnosis.optional_modules) <= 4
        /\ Range(output.recommended_modules) \cup Range(output.optional_modules)
              \subseteq CatalogNames

\* six names answered, five kept, and an invented optional name dropped
C21_Witness ==
    /\ Diagnosed
    /\ reply.kind = "json"
    /\ Len(reply.parsed.recommended_modules.items) = 6
    /\ Len(diagnosis.recommended_modules) = 5
    /\ \E i \in 1..Len(reply.parsed.optional_modules.items) :
           reply.parsed.optional_modules.items[i].s \notin CatalogNames
    /\ diagnosis.optional_modules # <<>>

\* the reply gives no usable entry for a list field: not a list, an empty list,
\* or a list of blanks
NoUsableEntries(value) ==
    \/ value.t # "list"
    \/ \A i \in 1..Len(value.items) : Strip(PyStr(value.items[i])) = ""

\* C22: when the reply gives opportunities, limitations or data_needed as a
\* non-list, an empty list or a list of blanks, the field of the diagnosis and of
\* the AnalysisOutput holds the local fallback value, not an empty list.
C22_BlankListsFallBack ==
    (Diagnosed /\ reply.kind = "json") =>
        /\ NoUsableEntries(reply.parsed.opportunities) =>
              /\ diagnosis.opportunities = fallback_result.opportunities
              /\ output.opportunities = fallback_result.opportunities
        /\ NoUsableEntries(reply.parsed.limitations) =>
              /\ diagnosis.limitations = fallback_result.limitations
              /\ output.limitations = fallback_result.limitations
        /\ NoUsableEntries(reply.parsed.data_needed) =>
              /\ diagnosis.data_needed = fallback_result.data_needed
              /\ output.data_needed = fallback_result.data_needed

\* the modules the administrative-pain bonus of _score_modules is given to
AdminBonusTargets ==
    {"Eficiencia administrativa (archivos y carpetas)", "Generador de documentos inteligente"}

\* C26: every module name in the priority-to-module table, among the keys of the
\* allow-gate table, among the targets of the administrative-pain bonus and in the
\* generic fallback list is the name of a catalog module, and every selectable
\* priority key expands to at least one catalog module
C26_TablesNameCatalogModules ==
    /\ \A key \in PriorityKeys : selection_map[key] \subseteq CatalogNames
    /\ DOMAIN gates \subseteq CatalogNames
    /\ AdminBonusTargets \subseteq CatalogNames
    /\ Range(generic) \subseteq CatalogNames
    /\ \A i \in 1..Len(payload.selected_modules) :
           payload.selected_modules[i] \in PriorityKeys =>
               selection_map[payload.selected_modules[i]] \cap CatalogNames # {}

---------------------------------------------------------------------------
(* Properties of generate_content *)

CallReturned == client.pc = "returned"

CallInLoop == client.pc \in {"loop", "returned"} /\ client.candidates # <<>>

LastBranch == client.branches[Len(client.branches)]

\* C23: generate_content sends its requests to the candidates in list order, one
\* request per candidate and no candidate twice; a model-not-found or unsupported
\* answer is followed by the next candidate; the call stops at the first non-empty
\* text and returns it with the name of the model that gave it; it returns no text
\* with the last recorded error only when every candidate was tried, or straight
\* after an HTTP error that is not about the model
C23_CandidatesInOrder ==
    CallInLoop =>
        /\ Len(client.sent) <= Len(client.candidates)
        /\ client.sent = SubSeq(client.candidates, 1, Len(client.sent))
        /\ \A i, j \in 1..Len(client.candidates) :
               client.candidates[i] = client.candidates[j] => i = j
        /\ \A k \in 1..(Len(client.branches) - 1) :
               client.branches[k] \notin {"text", "http_error"}
        /\ (CallReturned /\ client.result.text # NONE) =>
               /\ client.sent # <<>> /\ LastBranch = "text"
               /\ client.result.text # ""
               /\ client.result.model = client.sent[Len(client.sent)]
               /\ client.result.error = NONE
        /\ (CallReturned /\ client.result.text = NONE) =>
               \/ /\ Len(client.sent) = Len(client.candidates)
                  /\ LastBranch \notin {"text", "http_error"}
                  /\ client.result.model = NONE
                  /\ client.result.error = client.last_error
               \/ /\ client.sent # <<>> /\ LastBranch = "http_error"
                  /\ client.result.model = client.sent[Len(client.sent)]
        /\ (CallReturned /\ client.sent # <<>>
                /\ LastBranch \in {"model_not_found", "model_unsupported"}) =>
               Len(client.sent) = Len(client.candidates)

\* a call that skipped a model that was not found and an unsupported one and
\* returned the text of a later candidate
C23_Witness ==
    /\ CallReturned
    /\ client.result.text # NONE
    /\ Len(client.sent) >= 3
    /\ client.branches[1] = "model_not_found"
    /\ client.branches[2] = "model_unsupported"
    /\ client.preferred_model = "models/gemini-1.5-flash"
    /\ client.result.model = "gemini-2.0-flash"

\* C24: once a generate request fails with a network error or a timeout no further
\* generate request is sent, and a call sends more than one request only after
\* model-not-found or model-unsupported answers
C24_NoRequestAfterFailure ==
    CallInLoop =>
        \A k \in 1..(Len(client.branches) - 1) :
            client.branches[k] \in {"model_not_found", "model_unsupported"}

---------------------------------------------------------------------------
(* Properties of _build_roadmap *)

RECURSIVE SumOfWeeks(_)
SumOfWeeks(modules) ==
    IF modules = <<>> THEN 0
    ELSE modules[1].estimated_weeks + SumOfWeeks(Tail(modules))

\* the smallest integer that is at least half of n
HalfUp(n) == CHOOSE h \in 0..n : 2 * h >= n /\ 2 * (h - 1) < n

NoEtaHint == roadmap.implementation_eta \in {NONE, ""}

ShortEtaHint ==
    /\ ~NoEtaHint
    /\ \/ Contains("hora", Lower(roadmap.implementation_eta))
       \/ Contains("dia", Lower(roadmap.implementation_eta))

\* C25: _build_roadmap returns exactly the three phases Diagnostico, Implementacion
\* and Escala in this order, the first and the last of 1 week; without an ETA hint
\* the implementation lasts clamp(ceil(sum of estimated_weeks / 2), 2, 6) weeks,
\* hence 2 to 6 weeks and 2 for no module; with a hint that contains 'hora' or
\* 'dia' it lasts 1 week and the diagnosis label is '1-2 dias'
C25_ThreePhasesClampedWeeks ==
    roadmap.done =>
        /\ Len(roadmap.phases) = 3
        /\ roadmap.phases[1].name = "Diagnostico"
        /\ roadmap.phases[2].name = "Implementacion"
        /\ roadmap.phases[3].name = "Escala"
        /\ roadmap.phases[1].duration_weeks = 1
        /\ roadmap.phases[3].duration_weeks = 1
        /\ NoEtaHint =>
               /\ roadmap.phases[2].duration_weeks
                      = Max(2, Min(6, HalfUp(SumOfWeeks(roadmap.modules))))
               /\ roadmap.phases[2].duration_weeks \in 2..6
               /\ roadmap.modules = <<>> => roadmap.phases[2].duration_weeks = 2
        /\ ShortEtaHint =>
               /\ roadmap.phases[2].duration_weeks = 1
               /\ roadmap.phases[1].duration_label = "1-2 dias"

\* a roadmap without hint for modules of 5 weeks in all: 3 weeks of implementation
C25_Witness ==
    /\ roadmap.done
    /\ NoEtaHint
    /\ SumOfWeeks(roadmap.modules) = 5
    /\ roadmap.phases[2].duration_weeks = 3

---------------------------------------------------------------------------
(* Properties of the pricing functions *)

Priced == quote.op = "price" /\ quote.done
Guarded == quote.op = "guard" /\ quote.done

\* C5: the price suggest_setup_price returns lies within the band of the tier
\* decision it was given, [min_price_mxn, max_price_mxn], and is a multiple of 100
\* for MICRO and of 500 for LITE, GROWTH and ELITE.
C5_PriceWithinTierBand ==
    Priced =>
        /\ quote.tier.min_price_mxn <= quote.price
        /\ quote.price <= quote.tier.max_price_mxn
        /\ quote.price % (IF quote.tier.tier = "MICRO" THEN 100 ELSE 500) = 0

\* a scope whose layered price passes the top of the band is quoted at the top
C5_Witness ==
    /\ Priced
    /\ quote.tier.tier = "LITE"
    /\ Len(quote.selected) >= 3
    /\ quote.price = quote.tier.max_price_mxn

QuoteBand ==
    Strip(IF payload.employee_band # "" THEN payload.employee_band
          ELSE IF payload.team_size <= 5 THEN "1-5"
          ELSE IF payload.team_size <= 20 THEN "6-20" ELSE "21-100+")
QuoteVolume == Lower(Strip(payload.transaction_volume))
QuoteTooling == Lower(Strip(payload.tooling_level))
AdvancedScaleText == AnyIn(elite_keywords, Lower(quote.pain_text))
SchedulingText == AnyIn(micro_keywords, Lower(quote.pain_text))
SimpleProfile ==
    /\ QuoteVolume \in {"", "bajo"}
    /\ QuoteTooling \in {"", "solo_whatsapp", "excel"}
EliteTrigger ==
    \/ AdvancedScaleText
    \/ QuoteTooling = "erp_complejo"
    \/ QuoteBand = "21-100+"
    \/ QuoteVolume = "alto"
    \/ quote.complexity = "high"

\* C12: the ELITE rule is tested first: an advanced-scale keyword in the pain text,
\* tooling erp_complejo, employee band 21-100+, volume alto or complexity high gives
\* ELITE with the band (60000, 120000), whatever the other inputs are.
C12_EliteRuleFirst ==
    Priced /\ EliteTrigger =>
        /\ quote.tier.tier = "ELITE"
        /\ quote.tier.min_price_mxn = 60000
        /\ quote.tier.max_price_mxn = 120000

\* one person, nothing selected, scheduling words in the text, and still ELITE
\* because the text names an ERP
C12_Witness ==
    /\ Priced
    /\ payload.team_size = 1 /\ QuoteBand = "1-5" /\ SimpleProfile
    /\ quote.selected = <<>>
    /\ SchedulingText /\ AdvancedScaleText
    /\ quote.complexity = "low"
    /\ quote.tier.tier = "ELITE"

\* C13: without an ELITE trigger the decision is MICRO exactly when the band is
\* 1-5, the volume is empty or bajo, the tooling is empty, solo_whatsapp or excel,
\* and at most one distinct module is selected or the text has a scheduling
\* keyword or the team has at most 2 people; complexity low or medium changes nothing.
C13_MicroExactly ==
    Priced /\ ~EliteTrigger =>
        (quote.tier.tier = "MICRO" <=>
            /\ QuoteBand = "1-5"
            /\ SimpleProfile
            /\ \/ Cardinality(Range(quote.selected)) <= 1
               \/ SchedulingText
               \/ Max(1, payload.team_size) <= 2)

\* MICRO owed to the team size alone, with complexity medium
C13_Witness ==
    /\ Priced /\ ~EliteTrigger
    /\ payload.team_size = 2
    /\ Cardinality(Range(quote.selected)) >= 2
    /\ ~SchedulingText
    /\ quote.complexity = "medium"
    /\ quote.tier.tier = "MICRO"

\* C14: guard rail: team size <= 10, volume empty or bajo, tooling empty,
\* solo_whatsapp or excel, no advanced-scale keyword and complexity other than
\* high never give GROWTH.
C14_GuardRailNeverGrowth ==
    Priced /\ payload.team_size <= 10 /\ SimpleProfile /\ ~AdvancedScaleText
           /\ quote.complexity # "high" =>
        quote.tier.tier # "GROWTH"

\* every incidental GROWTH signal present, and LITE all the same
C14_Witness ==
    /\ Priced
    /\ payload.team_size = 10 /\ QuoteBand = "6-20" /\ SimpleProfile
    /\ AnyIn(growth_keywords, Lower(quote.pain_text))
    /\ Len(quote.selected) >= 2
    /\ quote.complexity = "medium"
    /\ quote.tier.tier = "LITE"

\* C16: the price enforce_irresistible_roi returns is a multiple of 500 and at
\* least 1000, and the third value it returns is max(0, annual_savings) / 3, for
\* zero and negative prices and savings as well.
C16_GuardPriceRoundedAndFloored ==
    Guarded =>
        /\ quote.guard.final_price % 500 = 0
        /\ quote.guard.final_price >= 1000
        /\ quote.guard.max_for_3x.d = 3 * quote.savings.d
        /\ IF quote.savings.w < 0
           THEN quote.guard.max_for_3x.w = 0 /\ quote.guard.max_for_3x.f = 0
           ELSE /\ 3 * quote.guard.max_for_3x.w <= quote.savings.w
                /\ quote.savings.w < 3 * quote.guard.max_for_3x.w + 3
                /\ quote.guard.max_for_3x.f =
                       (quote.savings.w - 3 * quote.guard.max_for_3x.w) * quote.savings.d
                       + quote.savings.f

\* a negative price against a negative saving comes back as the floor
C16_Witness ==
    /\ Guarded
    /\ quote.price_arg < 0
    /\ quote.savings.w < 0
    /\ quote.guard.final_price = 1000
    /\ ~quote.guard.adjusted

RiskRated == quote.op = "risk" /\ quote.done
AdminPriority ==
    \E k \in {"eficiencia_administrativa", "documentos_inteligentes"} :
        k \in Range(quote.selected)
FinancePriority ==
    \E k \in {"conciliacion_automatica", "inventarios_datos"} : k \in Range(quote.selected)

\* C20: the error-risk factor is 0.35 when an administrative priority is selected
\* or an administrative keyword occurs in the pain text, otherwise 0.25 when a
\* finance or inventory priority is selected or a finance keyword occurs,
\* otherwise 0.15 (the factor is held in hundredths).
C20_AdminSignalOutranksFinance ==
    RiskRated =>
        quote.factor =
            IF AdminPriority \/ AnyIn(risk_admin_keywords, Lower(quote.pain_text)) THEN 35
            ELSE IF FinancePriority \/ AnyIn(risk_finance_keywords, Lower(quote.pain_text))
            THEN 25
            ELSE 15

---------------------------------------------------------------------------
(* Properties of the quote and the module lists of run_analysis *)

NoEcommerceGate(p) ==
    /\ ~AnyIn(gates[ShopifyErp], ScoreText(p))
    /\ \A i \in 1..Len(p.selected_modules) : p.selected_modules[i] # "inventarios_datos"

InOutputLists(name) ==
    name \in Range(output.recommended_modules) \cup Range(output.optional_modules)

SetupQuoted == quote.op = "setup" /\ quote.done

\* C27: the ROI guard never raises a quote: for every price suggest_setup_price
\* produces and every annual savings value the final price is at most that price,
\* so the setup fee of a quote is at most the upper end of its suggested range
C27_GuardOnlyLowers ==
    SetupQuoted =>
        /\ quote.guard.final_price <= quote.price
        /\ quote.guard.final_price <= quote.tier.max_price_mxn

\* a GROWTH quote the guard lowered to a third of the savings, above the floor
C27_Witness ==
    /\ SetupQuoted
    /\ quote.tier.tier = "GROWTH"
    /\ quote.guard.adjusted
    /\ quote.guard.final_price < quote.price
    /\ quote.guard.final_price > PriceFloor

---------------------------------------------------------------------------
(* Properties of _score_modules *)

Scored == pc = "diagnose"

InGuessLists(name) ==
    name \in Range(modules_guess) \cup Range(optional_modules_guess)

\* C9 as first stated: a text containing 'shopify' puts 'Sincronizacion Shopify-ERP'
\* in the recommended or the optional list of _score_modules, whatever else the
\* text matches and whatever priorities are selected.
C9_AsStated ==
    (Scored /\ Contains("shopify", ScoreText(payload))) => InGuessLists(ShopifyErp)

\* C9: a text containing 'shopify' makes 'Sincronizacion Shopify-ERP' eligible, and
\* _score_modules puts it in its recommended or optional list exactly when fewer
\* than nine eligible modules rank ahead of it (a higher score, or the same score
\* and an earlier place in the catalog).
C9_ShopifyListedUnlessCrowdedOut ==
    (Scored /\ Contains("shopify", ScoreText(payload))) =>
        \E k \in 1..Len(scored) :
            /\ catalog[scored[k].idx].name = ShopifyErp
            /\ LET ahead == {i \in 1..Len(scored) :
                               \/ scored[i].score > scored[k].score
                               \/ /\ scored[i].score = scored[k].score
                                  /\ scored[i].idx < scored[k].idx}
               IN  (Cardinality(ahead) < 9) <=> InGuessLists(ShopifyErp)

\* nine modules are eligible and the Shopify sync is the last one listed
C9_Witness ==
    /\ Scored
    /\ Contains("shopify", ScoreText(payload))
    /\ Len(scored) = 9
    /\ optional_modules_guess # <<>>
    /\ optional_modules_guess[Len(optional_modules_guess)] = ShopifyErp

RequestedInCatalog ==
    {name \in CatalogNames :
        \E i \in 1..Len(payload.selected_modules) :
            /\ payload.selected_modules[i] \in DOMAIN selection_map
            /\ name \in selection_map[payload.selected_modules[i]]}

\* C17: every catalog module a selected priority expands to is in the recommended
\* list (the top 5) of _score_modules, with or without its gate words in the text,
\* however many tags of other modules the text matches and however many
\* priorities are selected together.
C17_SelectedPrioritiesRecommended ==
    Scored => \A name \in RequestedInCatalog : name \in Range(modules_guess)

\* four modules that were not asked for match five tags each, and the dashboards
\* module, asked for and matching no tag, still takes the fifth place
C17_Witness ==
    /\ Scored
    /\ payload.selected_modules = <<"dashboards_reportes">>
    /\ Len(modules_guess) = 5
    /\ modules_guess[5] = "Reportes y dashboards operativos"
    /\ \E k \in 1..Len(scored) :
           /\ catalog[scored[k].idx].name = "Reportes y dashboards operativos"
           /\ scored[k].score = SelectedBonus
    /\ \A k \in 1..4 : scored[k].score >= SelectedBonus

\* the generic names that exist in the catalog, in the order of the generic list
GenericInCatalog == FilterIn(generic, CatalogNames)

\* C18: when no catalog module is eligible, _score_modules recommends the first up
\* to 3 names of the generic fallback list that exist in the catalog, in the order
\* of the fallback list, and gives the next up to 3 as optional; only when none
\* exists does it return the first 3 and the next 3 catalog entries.
C18_GenericFallbackInListOrder ==
    (Scored /\ scored = <<>>) =>
        IF GenericInCatalog # <<>>
        THEN /\ modules_guess = Take(GenericInCatalog, 3)
             /\ optional_modules_guess = Slice(GenericInCatalog, 3, 6)
        ELSE /\ modules_guess = Take(AllCatalogNames, 3)
             /\ optional_modules_guess = Slice(AllCatalogNames, 3, 6)

FrictionText ==
    _normalize(payload.processes \o " " \o payload.bottlenecks \o " " \o payload.systems
               \o " " \o payload.business_focus \o " " \o payload.team_roles)

LabelMatched(i) == \E k \in 1..Len(patterns[i].keys) : Contains(patterns[i].keys[k], FrictionText)

\* C19: _pick_friction_points returns a non-empty list without duplicates; a table
\* label is in it exactly when one of its keywords is a substring of the
\* normalized text; the labels keep the order of the table; the generic label is
\* returned, alone, exactly when no table label matched.
C19_FrictionLabelsInTableOrder ==
    Scored =>
        LET points == friction_points_guess
            matched == {i \in 1..Len(patterns) : LabelMatched(i)}
        IN  /\ points # <<>>
            /\ \A a, b \in 1..Len(points) : a # b => points[a] # points[b]
            /\ \A i \in 1..Len(patterns) : (patterns[i].label \in Range(points)) <=> i \in matched
            /\ \A a, b \in 1..Len(points) :
                  a < b => \E i, j \in 1..Len(patterns) :
                              i < j /\ points[a] = patterns[i].label
                                    /\ points[b] = patterns[j].label
            /\ (GenericFriction \in Range(points)) <=> matched = {}
            /\ matched = {} => points = <<GenericFriction>>

\* several labels at once, while a keyword that only the goals hold adds none
C19_Witness ==
    /\ Scored
    /\ Len(friction_points_guess) >= 3
    /\ Contains("correo", Lower(payload.goals))
    /\ ~LabelMatched(4)
    /\ patterns[4].label \notin Range(friction_points_guess)

\* C10: the ranked list of _score_modules is sorted by score descending, modules of
\* equal score keep the order of the catalog, and the recommended and optional
\* lists are the first five and the next four names of that ranking, so the same
\* intake always gives the same ordered lists.
C10_RankedByScoreThenCatalogOrder ==
    Scored =>
        /\ \A i, j \in 1..Len(scored) :
              i < j => \/ scored[i].score > scored[j].score
                       \/ /\ scored[i].score = scored[j].score
                          /\ scored[i].idx < scored[j].idx
        /\ scored # <<>> =>
              /\ modules_guess =
                    [i \in 1..Min(5, Len(scored)) |-> catalog[scored[i].idx].name]
              /\ optional_modules_guess =
                    [i \in 1..(Min(9, Len(scored)) - Min(5, Len(scored))) |->
                        catalog[scored[i + 5].idx].name]

\* more than five eligible modules, two of them tied across the cut between the lists
C10_Witness ==
    /\ Scored
    /\ Len(scored) > 5
    /\ scored[5].score = scored[6].score

---------------------------------------------------------------------------
(* Properties of the oauth_tokens table *)

TokensRunning == tokens.pc = "run"

---------------------------------------------------------------------------
(* Properties of the /implement handler *)

ProjectCreated == project.pc # "none" /\ project.status # NONE

RequestOver == project.pc \in {"responded", "raised"}

\* C29: a project created without both consents is stored as pending_consent and
\* stays so for the rest of the request, with no webhook post, no Meta validation,
\* no workflow provisioning and no checkout token in the session; a project
\* created with both consents ends the request as sent_to_n8n, n8n_failed or
\* ready_no_webhook, never as queued
C29_ConsentDecidesOutcome ==
    ProjectCreated =>
        /\ ~Consent =>
               /\ project.status = "pending_consent"
               /\ project.posts = 0
               /\ project.meta_validation = {}
               /\ ~project.provisioned
               /\ ~project.mp_checkout_token
        /\ (Consent /\ RequestOver) =>
               project.status \in {"sent_to_n8n", "n8n_failed", "ready_no_webhook"}

---------------------------------------------------------------------------
(* Properties of the portal login *)

\* C30: whenever portal_login_post stores portal_lead_id in the session, the id is
\* that of the lead row whose password validate_portal_login verified, also when
\* other requests insert leads with the same contact email between the password
\* check and the id lookup
C30_SessionBoundToVerifiedLead ==
    (login.pc # "none" /\ login.portal_lead_id # 0) =>
        login.portal_lead_id = login.verified

=============================================================================
